---- MODULE Spec2Model ----
(***************************************************************************)
(* pg_restore_fdw: section-based dump/restore of a reference ("moodys")    *)
(* and a tenant database linked through postgres_fdw.                      *)
(*                                                                         *)
(* The model follows the Go source statement by statement.  Text (paths,   *)
(* option tokens, artifact contents) is a sequence of one-character        *)
(* strings, so that Sprintf, strings.Replace and filepath.Join/Ext are     *)
(* computed and not assumed.  External processes (psql, pg_dump,           *)
(* pg_restore) are the environment: each invocation is one step whose      *)
(* outcome is chosen nondeterministically among those the server and the   *)
(* filesystem allow.                                                       *)
(***************************************************************************)
EXTENDS Integers, Sequences, FiniteSets, TLC

(* ------------------------------------------------------------------ *)
(* Bounds of the model                                                 *)
(* ------------------------------------------------------------------ *)

\* top-level calls the caller (main, the test) makes in one behaviour
MaxCalls == 3

\* the wrapped operation fails at most MaxK times in a row before it
\* succeeds; MaxK itself stands for "never succeeds"
MaxK == 4

(* ------------------------------------------------------------------ *)
(* Text                                                                *)
(* ------------------------------------------------------------------ *)

\* fragments a generated artifact content is made of, at most
MaxFrags == 2

\* rewrites applied to one generated artifact, at most
MaxRewrites == 2

\* rows SetupSourceDatabases put into the tenant's customer_transactions
\* (numTestRecords, scaled down)
NumTestRecords == 2

\* the most rows a failed run of the restore client leaves applied
MaxPartial == 1

\* the most processing units a host has
MaxCPUs == 2

PreData == <<"p","r","e","-","d","a","t","a">>
DataSec == <<"d","a","t","a">>
PostData == <<"p","o","s","t","-","d","a","t","a">>
ExtSql == <<".","s","q","l">>
ExtDump == <<".","d","u","m","p">>
MoodysPrefix == <<"m","o","o","d","y","s">>
TenantPrefix == <<"t","e","n","a","n","t">>
TenantPreDataName == <<"t","e","n","a","n","t","_","p","r","e","-","d","a","t","a",".","s","q","l">>
KeyDbname == <<"d","b","n","a","m","e">>
KeyHost == <<"h","o","s","t">>
KeyPort == <<"p","o","r","t">>
KeyUser == <<"u","s","e","r">>
KeyPassword == <<"p","a","s","s","w","o","r","d">>
Localhost == <<"l","o","c","a","l","h","o","s","t">>
Port5432 == <<"5","4","3","2">>
Postgres == <<"p","o","s","t","g","r","e","s">>
YourPassword == <<"y","o","u","r","_","p","a","s","s","w","o","r","d">>
MoodysDest == <<"m","o","o","d","y","s","_","d","e","s","t">>
TenantDest == <<"t","e","n","a","n","t","_","d","e","s","t">>
DumpDir == <<"d","u","m","p","_","t","e","s","t">>

Min(a, b) == IF a <= b THEN a ELSE b

\* s has sub at position i (1-based)
MatchAt(s, sub, i) ==
    /\ i >= 1
    /\ i + Len(sub) - 1 <= Len(s)
    /\ \A j \in 1..Len(sub) : s[i + j - 1] = sub[j]

\* strings.Contains
Contains(s, sub) == \E i \in 1..(Len(s) + 1) : MatchAt(s, sub, i)

\* strings.Index from position i on: the first occurrence of sub, or 0
IndexFrom(s, sub, i) ==
    LET at == {j \in i..(Len(s) + 1) : MatchAt(s, sub, j)}
    IN  IF at = {} THEN 0 ELSE CHOOSE j \in at : \A h \in at : j <= h

RECURSIVE ReplaceFrom(_, _, _, _)
ReplaceFrom(s, old, new, i) ==
    LET j == IndexFrom(s, old, i)
    IN  IF j = 0 THEN SubSeq(s, i, Len(s))
        ELSE SubSeq(s, i, j - 1) \o new \o ReplaceFrom(s, old, new, j + Len(old))

\* (variant: strings.Replace(s, old, new, 1), the first occurrence only)
ReplaceFirst(s, old, new) ==
    LET j == IndexFrom(s, old, 1)
    IN  IF j = 0 THEN s
        ELSE SubSeq(s, 1, j - 1) \o new \o SubSeq(s, j + Len(old), Len(s))

\* strings.Replace(s, old, new, -1) for a non-empty old: every
\* non-overlapping occurrence, leftmost first
ReplaceAll(s, old, new) == ReplaceFrom(s, old, new, 1)

\* filepath.Join(dir, name) for a clean dir and a plain file name
Join(dir, name) == dir \o <<"/">> \o name

\* filepath.Ext: the suffix from the final dot of the final path element
Ext(path) ==
    LET dots == {i \in 1..Len(path) :
                    /\ path[i] = "."
                    /\ \A j \in i..Len(path) : path[j] # "/"}
    IN  IF dots = {} THEN <<>>
        ELSE LET d == CHOOSE i \in dots : \A j \in dots : j <= i
             IN  SubSeq(path, d, Len(path))

(* ------------------------------------------------------------------ *)
(* Connection descriptors (DBConfig) and the caller's configuration    *)
(* ------------------------------------------------------------------ *)

DBConfig(host, port, user, password, dbname) ==
    [Host |-> host, Port |-> port, User |-> user,
     Password |-> password, DBName |-> dbname]

\* main(): the four descriptors and the dump directory
MainConfig ==
    [srcMoodys  |-> DBConfig(Localhost, Port5432, Postgres, YourPassword, MoodysPrefix),
     srcTenant  |-> DBConfig(Localhost, Port5432, Postgres, YourPassword, TenantPrefix),
     destMoodys |-> DBConfig(Localhost, Port5432, Postgres, YourPassword, MoodysDest),
     destTenant |-> DBConfig(Localhost, Port5432, Postgres, YourPassword, TenantDest),
     dir        |-> DumpDir]

(* ------------------------------------------------------------------ *)
(* Errors: a chain of layers, outermost first; nil is the empty chain  *)
(* ------------------------------------------------------------------ *)

Nil == <<>>

\* fmt.Errorf("<msg with a, b>: %w", cause)
Errorf(msg, a, b, cause) == <<[msg |-> msg, a |-> a, b |-> b]>> \o cause

\* fmt.Errorf("<msg>: %w\nOutput: %s", cause, output)
ErrorfOutput(msg, output, cause) ==
    <<[msg |-> msg, a |-> <<>>, b |-> <<>>, out |-> output]>> \o cause

\* the error of an exited process (*exec.ExitError); n tells invocations apart
ExitError(n) == <<[msg |-> "exit status", a |-> <<>>, b |-> n]>>

(* ------------------------------------------------------------------ *)
(* Section Dumper                                                      *)
(* ------------------------------------------------------------------ *)

\* DumpWorkflow: sections := []string{"pre-data", "data", "post-data"}
Sections == <<PreData, DataSec, PostData>>

\* (variant: the tenant database is dumped first)
DatabasesTenantFirst(c) ==
    <<[config |-> c.srcTenant, namePrefix |-> TenantPrefix],
      [config |-> c.srcMoodys, namePrefix |-> MoodysPrefix]>>

\* DumpWorkflow: the two databases, reference first, with their file prefixes
Databases(c) ==
    <<[config |-> c.srcMoodys, namePrefix |-> MoodysPrefix],
      [config |-> c.srcTenant, namePrefix |-> TenantPrefix]>>

\* DumpWorkflow: filepath.Join(outputDir, fmt.Sprintf("%s_%s", prefix, section))
DumpStem(dir, prefix, section) == Join(dir, prefix \o <<"_">> \o section)

\* dumpDatabaseSection: the format letter handed to pg_dump -F
DumpFormat(section) == IF section = PreData THEN "p" ELSE "c"

\* (variant: every section gets the plain-text extension)
FileExtSql(section) == ExtSql

\* dumpDatabaseSection: fileExt
FileExt(section) == IF section = PreData THEN ExtSql ELSE ExtDump

\* dumpDatabaseSection: outputFile = outputFile + fileExt
DumpOutputFile(stem, section) == stem \o FileExt(section)

(* ------------------------------------------------------------------ *)
(* Foreign-Link Rewriter                                               *)
(* ------------------------------------------------------------------ *)

\* fmt.Sprintf("<key> '%s'", value)
Token(key, value) == key \o <<" ", "'">> \o value \o <<"'">>

\* modifyPreDataFile: the five strings.Replace calls, in the code's order
\* (each mi is the one-element set of the text after the i-th call)
ModifiedContent(content, src, dest) ==
    LET m1 == {ReplaceAll(m, Token(KeyDbname, src.DBName), Token(KeyDbname, dest.DBName)) :
                    m \in {content}}
        m2 == {ReplaceAll(m, Token(KeyHost, src.Host), Token(KeyHost, dest.Host)) :
                    m \in m1}
        m3 == {ReplaceAll(m, Token(KeyPort, src.Port), Token(KeyPort, dest.Port)) :
                    m \in m2}
        m4 == {ReplaceAll(m, Token(KeyUser, src.User), Token(KeyUser, dest.User)) :
                    m \in m3}
        m5 == {ReplaceAll(m, Token(KeyPassword, src.Password),
                          Token(KeyPassword, dest.Password)) : m \in m4}
    IN  CHOOSE m \in m5 : TRUE

(* ------------------------------------------------------------------ *)
(* Execution Retrier                                                   *)
(* ------------------------------------------------------------------ *)

\* (variant: the loop stops one attempt early)
LoopCondStrict(attempt, maxAttempts) == attempt < maxAttempts

\* RetryWithBackoff: for attempt := 1; attempt <= maxAttempts; attempt++
LoopCond(attempt, maxAttempts) == attempt <= maxAttempts

\* (variant: the last allowed attempt is logged and slept after, too)
SleepCondAlways(attempt, maxAttempts) == attempt <= maxAttempts

\* RetryWithBackoff: if attempt < maxAttempts { ... time.Sleep(backoff) }
SleepCond(attempt, maxAttempts) == attempt < maxAttempts

\* (variant: a linear backoff)
BackoffLinear(attempt) == 2 * attempt

\* RetryWithBackoff: backoff := time.Duration(attempt*attempt) * time.Second
Backoff(attempt) == attempt * attempt

\* (variant: only the first error is kept)
NextLastErrFirst(lastErr, err) == IF lastErr = Nil THEN err ELSE lastErr

\* RetryWithBackoff: lastErr = err
NextLastErr(lastErr, err) == err

\* (variant: with no error to wrap the retrier reports success)
RetryErrorNilOnNil(operation, maxAttempts, lastErr) ==
    IF lastErr = <<>> THEN <<>>
    ELSE <<[msg |-> "operation %s failed after %d attempts", a |-> operation,
            b |-> maxAttempts]>> \o lastErr

\* RetryWithBackoff: fmt.Errorf("operation %s failed after %d attempts: %w", ...)
RetryError(operation, maxAttempts, lastErr) ==
    Errorf("operation %s failed after %d attempts", operation, maxAttempts, lastErr)

(* ------------------------------------------------------------------ *)
(* Section Restorer and Restore Workflow: names and commands           *)
(* ------------------------------------------------------------------ *)

\* (variant: the restore client gets two attempts)
RestoreMaxAttemptsTwo == 1 + 1

\* (variant: the restore client gets four attempts)
RestoreMaxAttemptsFour == 2 + 2

\* restoreDatabaseSection: RetryWithBackoff(..., 3, ...)
RestoreMaxAttempts == 3

\* getNumCPUs
getNumCPUs == 1

\* (variant: the retrier is given the bare path as its operation)
RestoreOperationBare(inputFile) == inputFile

\* restoreDatabaseSection: fmt.Sprintf("restore %s", inputFile)
RestoreOperation(inputFile) == <<"r","e","s","t","o","r","e"," ">> \o inputFile

\* restoreDatabaseSection: the command the closure builds
RestoreCommand(config, inputFile, section) ==
    IF section = PreData
    THEN [prog |-> "psql", db |-> config.DBName, file |-> inputFile, jobs |-> 0]
    ELSE [prog |-> "pg_restore", db |-> config.DBName, file |-> inputFile,
          jobs |-> getNumCPUs]

\* (variant: the reference loop misses the post-data section)
MoodysSectionsShort == <<PreData, DataSec>>

\* RestoreWorkflow, reference loop: sections := []string{"pre-data", "data", "post-data"}
MoodysSections == <<PreData, DataSec, PostData>>

\* RestoreWorkflow, reference loop: "moodys_%s%s" with fileExt
RestoreMoodysFile(dir, section) ==
    Join(dir, MoodysPrefix \o <<"_">> \o section
              \o (IF section = PreData THEN ExtSql ELSE ExtDump))

\* RestoreWorkflow: filepath.Join(inputDir, "tenant_pre-data.sql")
TenantPreDataFile(dir) == Join(dir, TenantPreDataName)

\* (variant: the restore reads tenantPreDataFile+".dump", not the rewritten file)
TenantPreDataRestoreFileDump(tenantPreDataFile) == tenantPreDataFile \o ExtDump

\* RestoreWorkflow: the path handed to the tenant pre-data restore
TenantPreDataRestoreFile(tenantPreDataFile) == tenantPreDataFile

\* RestoreWorkflow: for _, section := range []string{"data", "post-data"}
TenantRest == <<DataSec, PostData>>

\* (variant: "tenant_%s.sql.dump")
RestoreTenantFileSqlDump(dir, section) ==
    Join(dir, TenantPrefix \o <<"_">> \o section \o ExtSql \o ExtDump)

\* RestoreWorkflow, tenant loop: "tenant_%s.dump"
RestoreTenantFile(dir, section) ==
    Join(dir, TenantPrefix \o <<"_">> \o section \o ExtDump)

(* ------------------------------------------------------------------ *)
(* State                                                               *)
(* ------------------------------------------------------------------ *)

VARIABLES
    pc,         \* where the single thread of control stands
    calls,      \* top-level calls made so far by the caller
    cfg,        \* the caller's descriptors and directory (never mutated)
    exists,     \* names of the databases that exist on the server
    dbdata,     \* database name -> artifacts applied to it, oldest first
    dirExists,  \* the dump directory exists
    files,      \* path -> content, for every file that exists
    ix,         \* loop indices of the running workflow: [d, s]
    rs,         \* frame of restoreDatabaseSection
    rt,         \* frame of RetryWithBackoff
    trace,      \* steps of the current top-level call, in order
    result,     \* the current or last top-level call and what it returned
    rewriteLog  \* modifyPreDataFile's log of original and modified content

vars == <<pc, calls, cfg, exists, dbdata, dirExists, files, ix, rs, rt,
          trace, result, rewriteLog>>

\* every database name the caller's descriptors mention
DBNames(c) ==
    {c.srcMoodys.DBName, c.srcTenant.DBName, c.destMoodys.DBName, c.destTenant.DBName}

(* ------------------------------------------------------------------ *)
(* Environment: what the external programs and the filesystem do       *)
(* ------------------------------------------------------------------ *)

\* pg_dump's rendering of the foreign server and user mapping options
\* (the tenant pre-data fixture): the user key is written quoted
ForeignLinkText(m) ==
    <<"O","P","T","I","O","N","S"," ","(","\n"," "," "," "," ">>
    \o Token(KeyDbname, m.DBName) \o <<",","\n"," "," "," "," ">>
    \o Token(KeyHost, m.Host) \o <<",","\n"," "," "," "," ">>
    \o Token(KeyPort, m.Port) \o <<"\n",")",";","\n">>
    \o <<"O","P","T","I","O","N","S"," ","(","\n"," "," "," "," ">>
    \o Token(KeyPassword, m.Password) \o <<",","\n"," "," "," "," ">>
    \o <<"\"","u","s","e","r","\""," ","'">> \o m.User \o <<"'">>
    \o <<"\n",")",";","\n">>

\* populateTestData: the rows of customer_transactions, one mark per row
Rows(n) == [i \in 1..n |-> "r"]

\* what SetupSourceDatabases left in a source database, per section: the
\* tenant's schema section holds the foreign link to the reference database
SeedContent(c, prefix, section) ==
    IF prefix = TenantPrefix /\ section = PreData
    THEN ForeignLinkText(c.srcMoodys)
    ELSE IF prefix = TenantPrefix /\ section = DataSec
    THEN Rows(NumTestRecords)
    ELSE prefix \o <<"_">> \o section

SeedData(c, prefix) ==
    [i \in 1..3 |-> [section |-> Sections[i],
                     content |-> SeedContent(c, prefix, Sections[i])]]

\* the rows a table holds: every application of row data adds its rows
\* (COPY appends; the restore client is run without --clean)
RECURSIVE TableRows(_)
TableRows(applied) ==
    IF applied = <<>> THEN <<>>
    ELSE (IF Head(applied).section = DataSec THEN Head(applied).content ELSE <<>>)
         \o TableRows(Tail(applied))

\* the content a database holds for a section: for the schema sections the
\* last artifact applied, for the row data all rows applied
SectionContent(applied, section) ==
    LET here == {i \in 1..Len(applied) : applied[i].section = section}
    IN  IF section = DataSec THEN TableRows(applied)
        ELSE IF here = {} THEN <<>>
        ELSE applied[CHOOSE i \in here : \A j \in here : j <= i].content

\* customer_transactions exists in a database once the tenant's schema
\* section has been applied to it
TableExists(name) ==
    /\ name \in exists
    /\ \E i \in 1..Len(dbdata[name]) : dbdata[name][i].section = PreData

\* SELECT COUNT(*) FROM customer_transactions: the rows the data section
\* brought, none before it is applied
CountRows(name) == Len(SectionContent(dbdata[name], DataSec))

\* strconv-style decimal rendering of a count
RECURSIVE Itoa(_)
Itoa(n) ==
    LET digit == <<"0", "1", "2", "3", "4", "5", "6", "7", "8", "9">>[(n % 10) + 1]
    IN  IF n < 10 THEN <<digit>> ELSE Itoa(n \div 10) \o <<digit>>

\* cmd.CombinedOutput(): what the n-th failing process of a call wrote to
\* its standard output and standard error
CombinedOutput(n) == <<"o","u","t","p","u","t"," ">> \o Itoa(n)

\* psql -t -c: the tuple-only rendering of the count
FormatCount(n) == <<" ">> \o Itoa(n) \o <<"\n", "\n">>

\* strings.TrimSpace
TrimSpace(s) ==
    LET solid == {i \in 1..Len(s) : s[i] \notin {" ", "\n", "\t", "\r"}}
    IN  IF solid = {} THEN <<>>
        ELSE SubSeq(s, CHOOSE i \in solid : \A j \in solid : i <= j,
                       CHOOSE i \in solid : \A j \in solid : j <= i)

\* the count query's outcomes on a database: it fails without the table,
\* and may fail anyway
CountOutcomes(name) ==
    {[ok |-> FALSE, out |-> <<>>]}
    \cup (IF TableExists(name)
          THEN {[ok |-> TRUE, out |-> FormatCount(CountRows(name))]}
          ELSE {})

\* os.WriteFile / pg_dump -f: the file holds exactly the content
WriteFile(fs, path, content) ==
    [p \in (DOMAIN fs) \cup {path} |-> IF p = path THEN content ELSE fs[p]]

\* (variant: creating a database that exists may succeed)
CreateOutcomesLenient(name) == BOOLEAN

\* CREATE DATABASE fails when the database exists, and may fail anyway
CreateOutcomes(name) == IF name \in exists THEN {FALSE} ELSE BOOLEAN

\* pg_dump needs the database and the directory, and may fail anyway
DumpOutcomes(name) == IF name \in exists /\ dirExists THEN BOOLEAN ELSE {FALSE}

\* how often the restore client fails in a row before it succeeds: it never
\* succeeds (MaxK) without the database or without the artifact
RestoreFailures(name, file) ==
    IF name \in exists /\ file \in DOMAIN files THEN 0..MaxK ELSE {MaxK}

(* ------------------------------------------------------------------ *)
(* Initial state: the source databases are set up, nothing is dumped   *)
(* ------------------------------------------------------------------ *)

NoConfig == DBConfig(<<>>, <<>>, <<>>, <<>>, <<>>)

NoCommand == [prog |-> "", db |-> <<>>, file |-> <<>>, jobs |-> 0]

NoRs == [config |-> NoConfig, inputFile |-> <<>>, section |-> <<>>,
         site |-> "none", probe |-> "none", cmd |-> NoCommand]

NoRt == [operation |-> <<>>, maxAttempts |-> 0, attempt |-> 0, lastErr |-> Nil,
         k |-> 0, fn |-> "none", ev |-> <<>>, log |-> <<>>, err |-> Nil,
         state |-> "none"]

NoResult == [call |-> "none", done |-> TRUE, err |-> Nil]

Init ==
    /\ pc = "idle"
    /\ calls = 0
    /\ cfg = MainConfig
    /\ exists = {cfg.srcMoodys.DBName, cfg.srcTenant.DBName}
    /\ dbdata = [n \in DBNames(cfg) |->
                    IF n = cfg.srcMoodys.DBName THEN SeedData(cfg, MoodysPrefix)
                    ELSE IF n = cfg.srcTenant.DBName THEN SeedData(cfg, TenantPrefix)
                    ELSE <<>>]
    /\ dirExists = FALSE
    /\ files = <<>>
    /\ ix = [d |-> 0, s |-> 0]
    /\ rs = NoRs
    /\ rt = NoRt
    /\ trace = <<>>
    /\ result = NoResult
    /\ rewriteLog = <<>>

\* a step of the running call, as an instrumented harness would record it
\* (how: the dump format or the restore client, where there is one)
Event(op, db, section, file, how, ok) ==
    [op |-> op, db |-> db, section |-> section, file |-> file, how |-> how,
     ok |-> ok]

\* the caller is between calls and may make another one
CanCall == pc = "idle" /\ calls < MaxCalls

\* the frames of the previous call are gone when the caller calls again
NoFrames == rs' = NoRs /\ rt' = NoRt

\* a top-level call begins and keeps running
Begin(name) ==
    /\ calls' = calls + 1
    /\ result' = [call |-> name, done |-> FALSE, err |-> Nil]

\* a top-level call begins and returns err in the same step
BeginReturn(name, err) ==
    /\ calls' = calls + 1
    /\ result' = [call |-> name, done |-> TRUE, err |-> err]
    /\ pc' = "idle"

\* the running top-level call returns err
Return(err) ==
    /\ pc' = "idle"
    /\ result' = [result EXCEPT !.done = TRUE, !.err = err]

\* (variant: the returned error is never looked at)
FailedNever(err) == FALSE

\* if err != nil
Failed(err) == err # Nil


(* ------------------------------------------------------------------ *)
(* DumpWorkflow and dumpDatabaseSection                                *)
(* ------------------------------------------------------------------ *)

\* DumpWorkflow entry: os.MkdirAll(outputDir), which the filesystem may refuse
CallDumpWorkflow ==
    /\ CanCall
    /\ \E ok \in BOOLEAN :
        IF ok
        THEN /\ Begin("DumpWorkflow")
             /\ dirExists' = TRUE
             /\ pc' = "dw_dump"
             /\ ix' = [d |-> 1, s |-> 1]
             /\ trace' = <<Event("mkdir", <<>>, <<>>, cfg.dir, "", TRUE)>>
        ELSE /\ BeginReturn("DumpWorkflow",
                    Errorf("failed to create output directory", cfg.dir, <<>>, ExitError(0)))
             /\ trace' = <<Event("mkdir", <<>>, <<>>, cfg.dir, "", FALSE)>>
             /\ UNCHANGED <<dirExists, ix>>
    /\ NoFrames
    /\ UNCHANGED <<cfg, exists, dbdata, files, rewriteLog>>

\* (variant: the error does not say which dump failed)
DumpErrorAnonymous(prefix, section, cause) ==
    Errorf("failed to dump", <<>>, <<>>, cause)

\* DumpWorkflow: fmt.Errorf("failed to dump %s %s: %w", db.namePrefix, section, err)
DumpError(prefix, section, cause) ==
    Errorf("failed to dump %s %s", prefix, section, cause)

\* dumpDatabaseSection's step: on failure the captured output is logged
\* (log.Printf("Error dumping database section: %s", output))
DumpEvent(name, section, outputFile, ok, n) ==
    [logged |-> IF ok THEN <<>> ELSE CombinedOutput(n)]
    @@ Event("dump", name, section, outputFile, DumpFormat(section), ok)

\* dumpDatabaseSection's error: fmt.Errorf("failed to dump database section: %w", err)
DumpSectionError(output, cause) ==
    Errorf("failed to dump database section", <<>>, <<>>, cause)

\* one iteration of DumpWorkflow's nested loops: dumpDatabaseSection runs
\* pg_dump once for one section; the first failure returns
DumpSection ==
    /\ pc = "dw_dump"
    /\ LET db         == Databases(cfg)[ix.d]
           section    == Sections[ix.s]
           outFile    == DumpStem(cfg.dir, db.namePrefix, section)
           outputFile == DumpOutputFile(outFile, section)
           name       == db.config.DBName
       IN  \E ok \in DumpOutcomes(name) :
            /\ trace' = Append(trace, DumpEvent(name, section, outputFile, ok,
                                                 Len(trace)))
            /\ IF ok
               THEN /\ files' = WriteFile(files, outputFile,
                                          SectionContent(dbdata[name], section))
                    /\ IF ix.s < Len(Sections)
                       THEN /\ ix' = [ix EXCEPT !.s = ix.s + 1]
                            /\ UNCHANGED <<pc, result>>
                       ELSE IF ix.d < Len(Databases(cfg))
                       THEN /\ ix' = [d |-> ix.d + 1, s |-> 1]
                            /\ UNCHANGED <<pc, result>>
                       ELSE /\ Return(Nil)
                            /\ UNCHANGED ix
               ELSE /\ Return(DumpError(db.namePrefix, section,
                              DumpSectionError(CombinedOutput(Len(trace)),
                                               ExitError(Len(trace)))))
                    /\ UNCHANGED <<files, ix>>
    /\ UNCHANGED <<calls, cfg, exists, dbdata, dirExists, rs, rt, rewriteLog>>

(* ------------------------------------------------------------------ *)
(* RetryWithBackoff                                                    *)
(* ------------------------------------------------------------------ *)

\* the frame at entry: attempt := 1, lastErr nil; k is the environment's
\* choice of how often fn fails before it first succeeds
RetryFrame(operation, maxAttempts, fn, k) ==
    [operation |-> operation, maxAttempts |-> maxAttempts, attempt |-> 1,
     lastErr |-> Nil, k |-> k, fn |-> fn, ev |-> <<>>, log |-> <<>>,
     err |-> Nil, state |-> "running"]

\* invocations of fn made so far in this retrier run
FnCalls(f) == Cardinality({i \in 1..Len(f.ev) : f.ev[i].e = "call"})

\* the sleeps of this retrier run, in order
Sleeps(f) ==
    LET RECURSIVE Pick(_)
        Pick(i) == IF i > Len(f.ev) THEN <<>>
                   ELSE IF f.ev[i].e = "sleep" THEN <<f.ev[i].d>> \o Pick(i + 1)
                   ELSE Pick(i + 1)
    IN  Pick(1)

\* the time a sequence of sleeps takes
RECURSIVE Sum(_)
Sum(q) == IF q = <<>> THEN 0 ELSE Head(q) + Sum(Tail(q))

\* the n-th invocation of fn succeeds: fn fails exactly its first k invocations
FnSucceeds(f, n) == f.k < MaxK /\ n > f.k

\* the error fn returns from its n-th invocation
FnError(f, n) ==
    IF f.fn = "restore"
    THEN ErrorfOutput("failed to restore database section", CombinedOutput(n),
                      ExitError(n))
    ELSE ExitError(n)

\* (variant: the section restorer does not wait for its retrier)
RetryReturnPcDetached(f) == "idle"

\* where RetryWithBackoff returns to
RetryReturnPc(f) == IF f.fn = "restore" THEN "rs_after" ELSE "idle"

\* what a failed run of the restore client may leave applied: nothing, or
\* the first rows of a row-data artifact (the client commits what it loaded
\* before it failed; the code passes neither --clean nor --single-transaction)
PartialChoices ==
    IF rt.fn = "restore" /\ rs.section = DataSec
       /\ rs.config.DBName \in exists /\ rs.inputFile \in DOMAIN files
    THEN {n \in 0..MaxPartial : n <= Len(files[rs.inputFile])}
    ELSE {0}

\* one pass of the loop body: fn() is called; nil returns at once, an error
\* is kept in lastErr and, unless this was the last attempt, a sleep follows;
\* a failed invocation leaves the first part rows applied (part in parts)
AttemptLeaving(parts) ==
    /\ pc = "retry_loop"
    /\ LoopCond(rt.attempt, rt.maxAttempts)
    /\ LET n  == FnCalls(rt) + 1
           ok == FnSucceeds(rt, n)
           ev == Append(rt.ev, [e |-> "call", n |-> rt.attempt, ok |-> ok, d |-> 0])
       IN  IF ok
           THEN /\ rt' = [rt EXCEPT !.ev = ev, !.err = Nil, !.state = "returned"]
                /\ pc' = RetryReturnPc(rt)
                /\ IF rt.fn = "restore"
                   THEN dbdata' = [dbdata EXCEPT ![rs.config.DBName] =
                            Append(@, [section |-> rs.section,
                                       content |-> files[rs.inputFile]])]
                   ELSE UNCHANGED dbdata
                /\ IF rt.fn = "restore"
                   THEN UNCHANGED result
                   ELSE result' = [result EXCEPT !.done = TRUE, !.err = Nil]
           ELSE /\ IF SleepCond(rt.attempt, rt.maxAttempts)
                   THEN /\ rt' = [rt EXCEPT !.ev = ev,
                                !.lastErr = NextLastErr(rt.lastErr, FnError(rt, n))]
                        /\ pc' = "retry_sleep"
                   ELSE /\ rt' = [rt EXCEPT !.ev = ev,
                                !.lastErr = NextLastErr(rt.lastErr, FnError(rt, n)),
                                !.attempt = rt.attempt + 1]
                        /\ pc' = "retry_loop"
                /\ \E part \in parts :
                    IF part > 0
                    THEN dbdata' = [dbdata EXCEPT ![rs.config.DBName] =
                            Append(@, [section |-> rs.section,
                                       content |-> SubSeq(files[rs.inputFile],
                                                          1, part)])]
                    ELSE UNCHANGED dbdata
                /\ UNCHANGED result
    /\ UNCHANGED <<calls, cfg, exists, dirExists, files, ix, rs, trace, rewriteLog>>

\* the loop body with a restore client that applies all or nothing
RetryAttempt == AttemptLeaving({0})

\* the loop body with a restore client that may fail part-way
RetryAttemptPartial == AttemptLeaving(PartialChoices)

\* the line log.Printf writes before a sleep:
\* "Attempt %d/%d for %s failed: %v. Retrying in %v..."
LogLine(attempt, maxAttempts, operation, err, backoff) ==
    [attempt |-> attempt, maxAttempts |-> maxAttempts, operation |-> operation,
     err |-> err, backoff |-> backoff]

\* the body of "if attempt < maxAttempts": the backoff is computed, the line
\* is logged, time.Sleep(backoff) runs; then attempt++
RetrySleep ==
    /\ pc = "retry_sleep"
    /\ rt' = [rt EXCEPT
                !.log = Append(rt.log, LogLine(rt.attempt, rt.maxAttempts,
                                               rt.operation, rt.lastErr,
                                               Backoff(rt.attempt))),
                !.ev = Append(rt.ev, [e |-> "sleep", n |-> rt.attempt, ok |-> TRUE,
                                      d |-> Backoff(rt.attempt)]),
                !.attempt = rt.attempt + 1]
    /\ pc' = "retry_loop"
    /\ UNCHANGED <<calls, cfg, exists, dbdata, dirExists, files, ix, rs, trace,
                   result, rewriteLog>>

\* the loop condition fails: every attempt failed (or none was allowed)
RetryExhausted ==
    /\ pc = "retry_loop"
    /\ ~LoopCond(rt.attempt, rt.maxAttempts)
    /\ LET err == RetryError(rt.operation, rt.maxAttempts, rt.lastErr)
       IN  /\ rt' = [rt EXCEPT !.err = err, !.state = "returned"]
           /\ pc' = RetryReturnPc(rt)
           /\ IF rt.fn = "restore"
              THEN UNCHANGED result
              ELSE result' = [result EXCEPT !.done = TRUE, !.err = err]
    /\ UNCHANGED <<calls, cfg, exists, dbdata, dirExists, files, ix, rs, trace,
                   rewriteLog>>

\* the caller runs the retrier on an operation of its own: any attempt
\* limit up to the restore path's, any number of failures before success
CallRetryWithBackoff ==
    /\ CanCall
    /\ \E maxAttempts \in -1..RestoreMaxAttempts, k \in 0..MaxK :
        rt' = RetryFrame(<<"o","p">>, maxAttempts, "stub", k)
    /\ Begin("RetryWithBackoff")
    /\ pc' = "retry_loop"
    /\ trace' = <<>>
    /\ rs' = NoRs
    /\ UNCHANGED <<cfg, exists, dbdata, dirExists, files, ix, rewriteLog>>


(* ------------------------------------------------------------------ *)
(* CreateDatabase, modifyPreDataFile, restoreDatabaseSection           *)
(* ------------------------------------------------------------------ *)

\* CreateDatabase's error
CreateError(n) == Errorf("failed to create database", <<>>, <<>>, ExitError(n))

\* (variant: the artifact is opened for writing before it is read)
ModifyOutcomesTruncating(fs, inputFile, src, dest) ==
    {[files |-> WriteFile(fs, inputFile, <<>>), read |-> FALSE,
      before |-> <<>>, after |-> <<>>,
      err |-> Errorf("failed to read pre-data file", inputFile, <<>>, ExitError(0))]}

\* modifyPreDataFile: what it may do to the files and what it returns.
\* Reading fails when the file is missing; writing may fail, leaving the
\* file as it was or truncated.
ModifyOutcomes(fs, inputFile, src, dest) ==
    IF inputFile \notin DOMAIN fs
    THEN {[files |-> fs, read |-> FALSE, before |-> <<>>, after |-> <<>>,
           err |-> Errorf("failed to read pre-data file", inputFile, <<>>, ExitError(0))]}
    ELSE LET content  == fs[inputFile]
             modified == ModifiedContent(content, src, dest)
             werr     == Errorf("failed to write modified pre-data file", inputFile,
                                <<>>, ExitError(0))
         IN  {[files |-> WriteFile(fs, inputFile, modified), read |-> TRUE,
               before |-> content, after |-> modified, err |-> Nil],
              [files |-> fs, read |-> TRUE,
               before |-> content, after |-> modified, err |-> werr],
              [files |-> WriteFile(fs, inputFile, <<>>), read |-> TRUE,
               before |-> content, after |-> modified, err |-> werr]}

\* modifyPreDataFile logs the original and the modified content it computed
LogRewrite(o, inputFile) ==
    IF o.read
    THEN Append(rewriteLog, [file |-> inputFile, before |-> o.before,
                             after |-> o.after, ok |-> o.err = Nil])
    ELSE rewriteLog

\* restoreDatabaseSection entry: the retrier is started on the closure
EnterRestore(config, inputFile, section, site) ==
    /\ rs' = [config |-> config, inputFile |-> inputFile, section |-> section,
              site |-> site, probe |-> "none",
              cmd |-> RestoreCommand(config, inputFile, section)]
    /\ \E k \in RestoreFailures(config.DBName, inputFile) :
        rt' = RetryFrame(RestoreOperation(inputFile), RestoreMaxAttempts, "restore", k)
    /\ pc' = "retry_loop"
    /\ trace' = Append(trace, Event("restore_begin", config.DBName, section, inputFile,
                                    RestoreCommand(config, inputFile, section).prog, TRUE))

\* restoreDatabaseSection: if section == "data" { count probe }
ProbeCond(section, err) == section = DataSec

\* the row-count probe, after the retrier returned: one psql -c; its
\* outcome is only logged
RowCountProbe ==
    /\ pc = "rs_after"
    /\ ProbeCond(rs.section, rt.err)
    /\ \E ok \in (IF rs.config.DBName \in exists THEN BOOLEAN ELSE {FALSE}) :
        /\ rs' = [rs EXCEPT !.probe = IF ok THEN "ok" ELSE "failed"]
        /\ trace' = Append(trace, Event("probe", rs.config.DBName, rs.section, <<>>,
                                        "psql", ok))
    /\ pc' = "rs_return"
    /\ UNCHANGED <<calls, cfg, exists, dbdata, dirExists, files, ix, rt, result,
                   rewriteLog>>

(* ------------------------------------------------------------------ *)
(* RestoreWorkflow                                                     *)
(* ------------------------------------------------------------------ *)

CallRestoreWorkflow ==
    /\ CanCall
    /\ Begin("RestoreWorkflow")
    /\ pc' = "rw_create_moodys"
    /\ trace' = <<>>
    /\ NoFrames
    /\ UNCHANGED <<cfg, exists, dbdata, dirExists, files, ix, rewriteLog>>

\* (variant: a failed create rolls the destination pair back)
LeftOnCreateFailureRollback(dbs, c) == dbs \ {c.destMoodys.DBName, c.destTenant.DBName}

\* RestoreWorkflow: a failed create returns at once; the databases that
\* exist are left as they are
LeftOnCreateFailure(dbs, c) == dbs

\* CreateDatabase(destMoodysConfig)
CreateMoodys ==
    /\ pc = "rw_create_moodys"
    /\ LET name == cfg.destMoodys.DBName
       IN  \E ok \in CreateOutcomes(name) :
            /\ trace' = Append(trace, Event("create", name, <<>>, <<>>, "psql", ok))
            /\ IF ok
               THEN /\ exists' = exists \cup {name}
                    /\ dbdata' = [dbdata EXCEPT ![name] = <<>>]
                    /\ pc' = "rw_create_tenant"
                    /\ UNCHANGED result
               ELSE /\ Return(Errorf("failed to create moodys database", <<>>, <<>>,
                                     CreateError(Len(trace))))
                    /\ exists' = LeftOnCreateFailure(exists, cfg)
                    /\ UNCHANGED dbdata
    /\ UNCHANGED <<calls, cfg, dirExists, files, ix, rs, rt, rewriteLog>>

\* CreateDatabase(destTenantConfig)
CreateTenant ==
    /\ pc = "rw_create_tenant"
    /\ LET name == cfg.destTenant.DBName
       IN  \E ok \in CreateOutcomes(name) :
            /\ trace' = Append(trace, Event("create", name, <<>>, <<>>, "psql", ok))
            /\ IF ok
               THEN /\ exists' = exists \cup {name}
                    /\ dbdata' = [dbdata EXCEPT ![name] = <<>>]
                    /\ pc' = "rw_moodys"
                    /\ ix' = [d |-> 1, s |-> 1]
                    /\ UNCHANGED result
               ELSE /\ Return(Errorf("failed to create tenant database", <<>>, <<>>,
                                     CreateError(Len(trace))))
                    /\ exists' = LeftOnCreateFailure(exists, cfg)
                    /\ UNCHANGED <<dbdata, ix>>
    /\ UNCHANGED <<calls, cfg, dirExists, files, rs, rt, rewriteLog>>

\* reference loop body: restoreDatabaseSection(destMoodysConfig, inFile, section)
RestoreMoodys ==
    /\ pc = "rw_moodys"
    /\ LET section == MoodysSections[ix.s]
       IN  EnterRestore(cfg.destMoodys, RestoreMoodysFile(cfg.dir, section), section,
                        "moodys")
    /\ UNCHANGED <<calls, cfg, exists, dbdata, dirExists, files, ix, result, rewriteLog>>

\* modifyPreDataFile(tenantPreDataFile, srcMoodysConfig, destMoodysConfig)
ModifyTenantPreData ==
    /\ pc = "rw_modify"
    /\ LET file == TenantPreDataFile(cfg.dir)
       IN  \E o \in ModifyOutcomes(files, file, cfg.srcMoodys, cfg.destMoodys) :
            /\ files' = o.files
            /\ rewriteLog' = LogRewrite(o, file)
            /\ trace' = Append(trace, Event("rewrite", <<>>, <<>>, file, "", o.err = Nil))
            /\ IF Failed(o.err)
               THEN Return(Errorf("failed to modify tenant pre-data file", <<>>, <<>>, o.err))
               ELSE /\ pc' = "rw_tenant_pre"
                    /\ UNCHANGED result
    /\ UNCHANGED <<calls, cfg, exists, dbdata, dirExists, ix, rs, rt>>

\* restoreDatabaseSection(destTenantConfig, tenantPreDataFile, "pre-data")
RestoreTenantPre ==
    /\ pc = "rw_tenant_pre"
    /\ EnterRestore(cfg.destTenant, TenantPreDataRestoreFile(TenantPreDataFile(cfg.dir)),
                    PreData, "tenant_pre")
    /\ UNCHANGED <<calls, cfg, exists, dbdata, dirExists, files, ix, result, rewriteLog>>

\* tenant loop body: restoreDatabaseSection(destTenantConfig, inFile, section)
RestoreTenantRest ==
    /\ pc = "rw_tenant_rest"
    /\ LET section == TenantRest[ix.s]
       IN  EnterRestore(cfg.destTenant, RestoreTenantFile(cfg.dir, section), section,
                        "tenant_rest")
    /\ UNCHANGED <<calls, cfg, exists, dbdata, dirExists, files, ix, result, rewriteLog>>

\* RestoreWorkflow's error for a failed section restore, by call site
RestoreError(site, section, err) ==
    IF site = "moodys"
    THEN Errorf("failed to restore moodys %s", section, <<>>, err)
    ELSE IF site = "tenant_pre"
    THEN Errorf("failed to restore tenant pre-data", <<>>, <<>>, err)
    ELSE Errorf("failed to restore tenant %s", section, <<>>, err)

\* (variant: a failed probe fails the section restore)
RestoreResultProbe(result_, probe) ==
    IF result_ = Nil /\ probe = "failed"
    THEN Errorf("could not get record count", <<>>, <<>>, ExitError(0))
    ELSE result_

\* restoreDatabaseSection: return result, whatever the probe gave
RestoreResult(result_, probe) == result_

\* restoreDatabaseSection returns the retrier's result to RestoreWorkflow,
\* which returns on an error and goes on to its next statement otherwise
RestoreSectionReturn ==
    /\ \/ pc = "rs_return"
       \/ pc = "rs_after" /\ ~ProbeCond(rs.section, rt.err)
    /\ LET res == RestoreResult(rt.err, rs.probe)
       IN  /\ trace' = Append(trace, Event("restore_end", rs.config.DBName, rs.section,
                                           rs.inputFile, "", res = Nil))
           /\ IF Failed(res)
              THEN Return(RestoreError(rs.site, rs.section, res)) /\ UNCHANGED ix
              ELSE IF rs.site = "moodys" /\ ix.s < Len(MoodysSections)
              THEN pc' = "rw_moodys" /\ ix' = [ix EXCEPT !.s = ix.s + 1] /\ UNCHANGED result
              ELSE IF rs.site = "moodys"
              THEN pc' = "rw_modify" /\ UNCHANGED <<ix, result>>
              ELSE IF rs.site = "tenant_pre"
              THEN pc' = "rw_tenant_rest" /\ ix' = [d |-> 2, s |-> 1] /\ UNCHANGED result
              ELSE IF ix.s < Len(TenantRest)
              THEN pc' = "rw_tenant_rest" /\ ix' = [ix EXCEPT !.s = ix.s + 1] /\ UNCHANGED result
              ELSE Return(Nil) /\ UNCHANGED ix
    /\ UNCHANGED <<calls, cfg, exists, dbdata, dirExists, files, rs, rt, rewriteLog>>


(* ------------------------------------------------------------------ *)
(* DeleteDatabases and the caller's direct use of modifyPreDataFile    *)
(* ------------------------------------------------------------------ *)

\* main and the test: DeleteDatabases(moodys, tenant, destMoodys, destTenant)
DeleteConfigs(c) == <<c.srcMoodys, c.srcTenant, c.destMoodys, c.destTenant>>

CallDeleteDatabases ==
    /\ CanCall
    /\ Begin("DeleteDatabases")
    /\ pc' = "dd_drop"
    /\ ix' = [d |-> 1, s |-> 0]
    /\ trace' = <<>>
    /\ NoFrames
    /\ UNCHANGED <<cfg, exists, dbdata, dirExists, files, rewriteLog>>

\* (variant: DROP DATABASE without IF EXISTS, an error on a missing database)
DropOutcomesPlain(name) ==
    IF name \in exists THEN {"ok", "connection", "in_use"}
    ELSE {"connection", "does_not_exist"}

\* dropDatabase: how psql -c "DROP DATABASE IF EXISTS <name>" may end: the
\* server is not reached, or it refuses to drop a database that is there
\* and in use, or it succeeds, whether or not the database is there
DropOutcomes(name) ==
    {"ok", "connection"} \cup (IF name \in exists THEN {"in_use"} ELSE {})

\* a drop as a step of the running call: how it ended, which databases
\* there were before it and which after it
DropEvent(name, o, before, after) ==
    [op |-> "drop", db |-> name, section |-> <<>>, file |-> <<>>, how |-> "psql",
     ok |-> o = "ok", outcome |-> o, before |-> before, after |-> after]

\* one iteration: dropDatabase runs DROP DATABASE IF EXISTS, which succeeds
\* whether or not the database exists, unless the client itself fails
DropDatabase ==
    /\ pc = "dd_drop"
    /\ LET name == DeleteConfigs(cfg)[ix.d].DBName
       IN  \E o \in DropOutcomes(name) :
            LET ok    == o = "ok"
                after == IF ok THEN exists \ {name} ELSE exists
            IN  /\ exists' = after
                /\ trace' = Append(trace, DropEvent(name, o, exists, after))
                /\ IF ok
                   THEN /\ dbdata' = [dbdata EXCEPT ![name] = <<>>]
                        /\ IF ix.d < Len(DeleteConfigs(cfg))
                           THEN ix' = [ix EXCEPT !.d = ix.d + 1] /\ UNCHANGED <<pc, result>>
                           ELSE Return(Nil) /\ UNCHANGED ix
                   ELSE /\ Return(Errorf("failed to drop database %s", name, <<>>,
                                  Errorf("failed to drop database %s", name, <<>>,
                                         ExitError(Len(trace)))))
                        /\ UNCHANGED <<dbdata, ix>>
    /\ UNCHANGED <<calls, cfg, dirExists, files, rs, rt, rewriteLog>>

\* a count query as a step of the running call, with the output it gave
CountEvent(name, o) ==
    [op |-> "count", db |-> name, section |-> <<>>, file |-> <<>>, how |-> "psql",
     ok |-> o.ok, out |-> o.out]

\* (variant: the two outputs are never compared)
CountsDifferNever(srcOutput, destOutput) == FALSE

\* ValidateDatabaseContent: string(srcOutput) != string(destOutput)
CountsDiffer(srcOutput, destOutput) == srcOutput # destOutput

\* ValidateDatabaseContent: what it returns for the two queries' outcomes
ValidateResult(so, do) ==
    IF ~so.ok
    THEN Errorf("failed to get source record count", <<>>, <<>>, ExitError(0))
    ELSE IF ~do.ok
    THEN Errorf("failed to get destination record count", <<>>, <<>>, ExitError(0))
    ELSE IF CountsDiffer(so.out, do.out)
    THEN Errorf("record count mismatch: source has %s records, destination has %s records",
                TrimSpace(so.out), TrimSpace(do.out), Nil)
    ELSE Nil

\* the test's "Validate Database Content":
\* ValidateDatabaseContent(tenantConfig, destTenantConfig); the destination
\* is queried only when the source query succeeded
CallValidateDatabaseContent ==
    /\ CanCall
    /\ LET src == cfg.srcTenant.DBName
           dst == cfg.destTenant.DBName
       IN  \E so \in CountOutcomes(src), do \in CountOutcomes(dst) :
            /\ trace' = IF so.ok
                        THEN <<CountEvent(src, so), CountEvent(dst, do)>>
                        ELSE <<CountEvent(src, so)>>
            /\ BeginReturn("ValidateDatabaseContent", ValidateResult(so, do))
    /\ NoFrames
    /\ UNCHANGED <<cfg, exists, dbdata, dirExists, files, ix, rewriteLog>>

\* the test's "Modify Tenant Pre-data": the rewriter called on its own
CallModifyPreDataFile ==
    /\ CanCall
    /\ LET file == TenantPreDataFile(cfg.dir)
       IN  \E o \in ModifyOutcomes(files, file, cfg.srcMoodys, cfg.destMoodys) :
            /\ files' = o.files
            /\ rewriteLog' = LogRewrite(o, file)
            /\ trace' = <<Event("rewrite", <<>>, <<>>, file, "", o.err = Nil)>>
            /\ BeginReturn("modifyPreDataFile", o.err)
    /\ NoFrames
    /\ UNCHANGED <<cfg, exists, dbdata, dirExists, ix>>

(* ------------------------------------------------------------------ *)
(* The program                                                         *)
(* ------------------------------------------------------------------ *)

Next ==
    \/ CallDumpWorkflow
    \/ DumpSection
    \/ CallRestoreWorkflow
    \/ CreateMoodys
    \/ CreateTenant
    \/ RestoreMoodys
    \/ ModifyTenantPreData
    \/ RestoreTenantPre
    \/ RestoreTenantRest
    \/ RetryAttempt
    \/ RetrySleep
    \/ RetryExhausted
    \/ RowCountProbe
    \/ RestoreSectionReturn
    \/ CallDeleteDatabases
    \/ DropDatabase
    \/ CallModifyPreDataFile
    \/ CallRetryWithBackoff
    \/ CallValidateDatabaseContent

Spec == Init /\ [][Next]_vars

(* ------------------------------------------------------------------ *)
(* The workflows with a restore client that may fail part-way          *)
(* ------------------------------------------------------------------ *)

NextPartial ==
    \/ CallDumpWorkflow
    \/ DumpSection
    \/ CallRestoreWorkflow
    \/ CreateMoodys
    \/ CreateTenant
    \/ RestoreMoodys
    \/ ModifyTenantPreData
    \/ RestoreTenantPre
    \/ RestoreTenantRest
    \/ RetryAttemptPartial
    \/ RetrySleep
    \/ RetryExhausted
    \/ RowCountProbe
    \/ RestoreSectionReturn
    \/ CallValidateDatabaseContent

SpecPartial == Init /\ [][NextPartial]_vars

(* ------------------------------------------------------------------ *)
(* The workflows under the assumption that every external process and  *)
(* every sleep ends: a step that can be taken is taken                 *)
(* ------------------------------------------------------------------ *)

\* the steps of DumpWorkflow and RestoreWorkflow
WorkflowStep ==
    \/ DumpSection
    \/ CreateMoodys
    \/ CreateTenant
    \/ RestoreMoodys
    \/ ModifyTenantPreData
    \/ RestoreTenantPre
    \/ RestoreTenantRest
    \/ RetryAttempt
    \/ RetrySleep
    \/ RetryExhausted
    \/ RowCountProbe
    \/ RestoreSectionReturn

NextLive ==
    \/ CallDumpWorkflow
    \/ CallRestoreWorkflow
    \/ WorkflowStep

SpecLive == Init /\ [][NextLive]_vars /\ WF_vars(WorkflowStep)

(* ------------------------------------------------------------------ *)
(* The workflows on hosts with one or more processing units            *)
(* ------------------------------------------------------------------ *)

\* main's configuration on a host with n processing units (runtime.NumCPU())
HostConfig(n) == [cpus |-> n] @@ MainConfig

InitHost ==
    /\ pc = "idle"
    /\ calls = 0
    /\ \E n \in 1..MaxCPUs : cfg = HostConfig(n)
    /\ exists = {cfg.srcMoodys.DBName, cfg.srcTenant.DBName}
    /\ dbdata = [n \in DBNames(cfg) |->
                    IF n = cfg.srcMoodys.DBName THEN SeedData(cfg, MoodysPrefix)
                    ELSE IF n = cfg.srcTenant.DBName THEN SeedData(cfg, TenantPrefix)
                    ELSE <<>>]
    /\ dirExists = FALSE
    /\ files = <<>>
    /\ ix = [d |-> 0, s |-> 0]
    /\ rs = NoRs
    /\ rt = NoRt
    /\ trace = <<>>
    /\ result = NoResult
    /\ rewriteLog = <<>>

NextHost ==
    \/ CallDumpWorkflow
    \/ DumpSection
    \/ CallRestoreWorkflow
    \/ CreateMoodys
    \/ CreateTenant
    \/ RestoreMoodys
    \/ ModifyTenantPreData
    \/ RestoreTenantPre
    \/ RestoreTenantRest
    \/ RetryAttempt
    \/ RetrySleep
    \/ RetryExhausted
    \/ RowCountProbe
    \/ RestoreSectionReturn

SpecHost == InitHost /\ [][NextHost]_vars

(* ------------------------------------------------------------------ *)
(* The rewriter on its own: modifyPreDataFile applied, and applied     *)
(* again, to generated artifacts under generated descriptor pairs      *)
(* ------------------------------------------------------------------ *)

\* the keys of the five option tokens, in the code's order
OptionKeys == <<KeyDbname, KeyHost, KeyPort, KeyUser, KeyPassword>>

\* the value a descriptor holds for the i-th option key
OptionValue(m, i) ==
    CASE i = 1 -> m.DBName
      [] i = 2 -> m.Host
      [] i = 3 -> m.Port
      [] i = 4 -> m.User
      [] i = 5 -> m.Password

\* (old, new) reference descriptors: those of main(); a pair that differs in
\* every field; a pair whose new values are old values of other fields; a
\* pair whose new host ends in a key and a space
DescriptorPairs ==
    {[old |-> MainConfig.srcMoodys, new |-> MainConfig.destMoodys],
     [old |-> DBConfig(<<"a">>, <<"1">>, <<"u">>, <<"p">>, <<"m">>),
      new |-> DBConfig(<<"b">>, <<"2">>, <<"v">>, <<"q">>, <<"n">>)],
     [old |-> DBConfig(<<"a">>, <<"1">>, <<"u">>, <<"p">>, <<"m">>),
      new |-> DBConfig(<<"m">>, <<"1">>, <<"p">>, <<"u">>, <<"m", "m">>)],
     [old |-> DBConfig(<<"a">>, <<"1">>, <<"u">>, <<"p">>, <<"m">>),
      new |-> DBConfig(KeyHost \o <<" ">>, <<"2">>, <<"v">>, <<"q">>, <<"n">>)]}

\* pieces of artifact text: the five old tokens, an already rewritten token,
\* a value followed by a quote, a separator
Fragments(old, new) ==
    {Token(OptionKeys[i], OptionValue(old, i)) : i \in 1..5}
    \cup {Token(KeyHost, new.Host), old.Host \o <<"'">>, <<",", " ">>}

RECURSIVE Concat(_)
Concat(q) == IF q = <<>> THEN <<>> ELSE Head(q) \o Concat(Tail(q))

\* artifact contents: the foreign link as pg_dump renders it, and every
\* concatenation of at most MaxFrags fragments
Contents(old, new) ==
    {ForeignLinkText(old)}
    \cup {Concat(q) : q \in UNION {[1..n -> Fragments(old, new)] : n \in 0..MaxFrags}}

InitRewrite ==
    /\ pc = "idle"
    /\ calls = 0
    /\ \E dp \in DescriptorPairs :
        /\ cfg = [MainConfig EXCEPT !.srcMoodys = dp.old, !.destMoodys = dp.new]
        /\ \E content \in Contents(dp.old, dp.new) :
            files = WriteFile(<<>>, TenantPreDataFile(cfg.dir), content)
    /\ exists = {cfg.srcMoodys.DBName, cfg.srcTenant.DBName}
    /\ dbdata = [n \in DBNames(cfg) |-> <<>>]
    /\ dirExists = TRUE
    /\ ix = [d |-> 0, s |-> 0]
    /\ rs = NoRs
    /\ rt = NoRt
    /\ trace = <<>>
    /\ result = NoResult
    /\ rewriteLog = <<>>

\* modifyPreDataFile called once more with the same arguments
Rewrite ==
    /\ Len(rewriteLog) < MaxRewrites
    /\ CallModifyPreDataFile

NextRewrite == Rewrite

SpecRewrite == InitRewrite /\ [][NextRewrite]_vars


(* ------------------------------------------------------------------ *)
(* Properties of RestoreWorkflow                                       *)
(* ------------------------------------------------------------------ *)

InRestore == result.call = "RestoreWorkflow"

RefName == cfg.destMoodys.DBName
TenantName == cfg.destTenant.DBName

Last(q) == q[Len(q)]

\* the sections of the artifacts applied to a database, in order
AppliedSections(name) == [i \in 1..Len(dbdata[name]) |-> dbdata[name][i].section]

TenantBegins == {i \in 1..Len(trace) :
                    trace[i].op = "restore_begin" /\ trace[i].db = TenantName}

\* C1: whenever a tenant section restore has begun (so before any of its
\* attempts), each of the three reference sections has been restored
\* successfully earlier in the run, no reference restore failed or is still
\* to come, and the reference database holds pre-data, data, post-data.
C1_ReferenceBeforeTenant ==
    InRestore =>
        /\ \A i \in TenantBegins :
            /\ \A s \in 1..Len(Sections) : \E j \in 1..(i - 1) :
                /\ trace[j].op = "restore_end"
                /\ trace[j].db = RefName
                /\ trace[j].section = Sections[s]
                /\ trace[j].ok
            /\ \A j \in 1..Len(trace) :
                (trace[j].db = RefName /\ trace[j].op \in {"restore_begin", "restore_end"})
                    => (j < i /\ trace[j].ok)
            /\ AppliedSections(RefName) = Sections
        /\ (rt.fn = "restore" /\ rs.config.DBName = TenantName /\ ~result.done)
                => TenantBegins # {}

\* C1 witness: an attempt to restore a tenant section has been made
C1_Witness ==
    /\ InRestore
    /\ ~result.done
    /\ rt.fn = "restore"
    /\ rs.config.DBName = TenantName
    /\ FnCalls(rt) >= 1

Rewrites == {i \in 1..Len(trace) : trace[i].op = "rewrite"}

\* C2: within one RestoreWorkflow the artifact is rewritten at most once,
\* after the reference post-data restore succeeded and before any tenant
\* restore begins; the tenant schema restore begins only after a successful
\* rewrite, on the path the rewriter wrote, and the file it reads (and the
\* content it applies) is the content the rewriter wrote; a successful
\* workflow has rewritten exactly once.
C2_RewriteBetween ==
    InRestore =>
        /\ Cardinality(Rewrites) <= 1
        /\ \A j \in Rewrites :
            /\ \E h \in 1..(j - 1) :
                /\ trace[h].op = "restore_end"
                /\ trace[h].db = RefName
                /\ trace[h].section = PostData
                /\ trace[h].ok
            /\ \A h \in TenantBegins : h > j
        /\ \A i \in TenantBegins :
            trace[i].section = PreData =>
                /\ \E j \in Rewrites :
                    j < i /\ trace[j].ok /\ trace[j].file = trace[i].file
                /\ rewriteLog # <<>>
                /\ Last(rewriteLog).ok
                /\ Last(rewriteLog).file = trace[i].file
                /\ trace[i].file \in DOMAIN files
                /\ files[trace[i].file] = Last(rewriteLog).after
                /\ \A k \in 1..Len(dbdata[TenantName]) :
                    dbdata[TenantName][k].section = PreData
                        => dbdata[TenantName][k].content = Last(rewriteLog).after
        /\ (result.done /\ result.err = Nil) => Cardinality(Rewrites) = 1

\* C2 witness: the tenant database holds the schema section, and what it
\* holds is the rewritten text, different from what the dump wrote
C2_Witness ==
    /\ InRestore
    /\ \E k \in 1..Len(dbdata[TenantName]) : dbdata[TenantName][k].section = PreData
    /\ rewriteLog # <<>>
    /\ Last(rewriteLog).before # Last(rewriteLog).after

FailingStep(e) == e.op \in {"create", "restore_end", "rewrite"} /\ ~e.ok

\* the outermost layer of the error RestoreWorkflow returns for a failed step
StepLayer(e) ==
    IF e.op = "create" /\ e.db = RefName
    THEN [msg |-> "failed to create moodys database", a |-> <<>>, b |-> <<>>]
    ELSE IF e.op = "create"
    THEN [msg |-> "failed to create tenant database", a |-> <<>>, b |-> <<>>]
    ELSE IF e.op = "rewrite"
    THEN [msg |-> "failed to modify tenant pre-data file", a |-> <<>>, b |-> <<>>]
    ELSE IF e.db = RefName
    THEN [msg |-> "failed to restore moodys %s", a |-> e.section, b |-> <<>>]
    ELSE IF e.section = PreData
    THEN [msg |-> "failed to restore tenant pre-data", a |-> <<>>, b |-> <<>>]
    ELSE [msg |-> "failed to restore tenant %s", a |-> e.section, b |-> <<>>]

\* C3: a failed create, a failed section restore (which made all of its
\* three attempts) or a failed rewrite is the last step of the run: the
\* workflow has returned, with an error whose outermost layer names that
\* step; and the workflow returns an error only after such a step.
C3_AbortOnFirstFailure ==
    InRestore =>
        /\ \A i \in 1..Len(trace) :
            FailingStep(trace[i]) =>
                /\ i = Len(trace)
                /\ pc = "idle"
                /\ result.done
                /\ result.err # Nil
                /\ Head(result.err) = StepLayer(trace[i])
                /\ trace[i].op = "restore_end" => FnCalls(rt) = RestoreMaxAttempts
        /\ (result.done /\ result.err # Nil)
                => (trace # <<>> /\ FailingStep(Last(trace)))

\* C3 witness: the tenant data restore failed and the workflow returned
C3_Witness ==
    /\ InRestore
    /\ result.done
    /\ trace # <<>>
    /\ Last(trace).op = "restore_end"
    /\ Last(trace).db = TenantName
    /\ Last(trace).section = DataSec
    /\ ~Last(trace).ok


(* ------------------------------------------------------------------ *)
(* Properties of RetryWithBackoff                                      *)
(* ------------------------------------------------------------------ *)

Returned == rt.state = "returned"

\* the invocations of fn made in this retrier run, in order
FnEvents == SelectSeq(rt.ev, LAMBDA x : x.e = "call")

\* C4 (as stated): with 3 attempts allowed, fn has been invoked exactly
\* min(k, 3) times when the retrier returns, k being the number of
\* consecutive failures of fn before its first success.
C4_Original ==
    (Returned /\ rt.maxAttempts = 3) => FnCalls(rt) = Min(rt.k, 3)

\* C4 (amended): with 3 attempts allowed, fn has been invoked exactly
\* min(k + 1, 3) times when the retrier returns: the k failures and the
\* success that follows them, cut at 3.
C4_InvocationCount ==
    (Returned /\ rt.maxAttempts = 3) => FnCalls(rt) = Min(rt.k + 1, 3)

\* C4 witness: fn failed once and then succeeded, and was invoked twice
C4_Witness ==
    /\ Returned
    /\ rt.maxAttempts = 3
    /\ rt.k = 1
    /\ FnCalls(rt) = 2
    /\ rt.err = Nil

\* C5: every sleep directly follows a failed attempt that is not the last
\* allowed one and lasts attempt*attempt units; every such failed attempt is
\* followed by its sleep before anything else happens; no sleep follows a
\* successful attempt or the last attempt; between two attempts there is
\* always a completed sleep; three failed attempts sleep 1 and then 4.
C5_BackoffSleeps ==
    /\ \A i \in 1..Len(rt.ev) :
        /\ rt.ev[i].e = "sleep" =>
            /\ i > 1
            /\ rt.ev[i - 1].e = "call"
            /\ ~rt.ev[i - 1].ok
            /\ rt.ev[i - 1].n < rt.maxAttempts
            /\ rt.ev[i].d = rt.ev[i - 1].n * rt.ev[i - 1].n
        /\ (rt.ev[i].e = "call" /\ ~rt.ev[i].ok /\ rt.ev[i].n < rt.maxAttempts) =>
            IF i < Len(rt.ev) THEN rt.ev[i + 1].e = "sleep" ELSE pc = "retry_sleep"
        /\ (rt.ev[i].e = "call" /\ (rt.ev[i].ok \/ rt.ev[i].n >= rt.maxAttempts)) =>
            /\ i = Len(rt.ev)
            /\ pc # "retry_sleep"
        /\ (rt.ev[i].e = "call" /\ i > 1) => rt.ev[i - 1].e = "sleep"
    /\ pc = "retry_sleep" => (rt.ev # <<>> /\ Last(rt.ev).e = "call")
    /\ (Returned /\ rt.maxAttempts = 3 /\ rt.err # Nil) => Sleeps(rt) = <<1, 4>>
    /\ Returned => \A i \in 1..Len(Sleeps(rt)) : Sleeps(rt)[i] = i * i

\* C5 witness: three failed attempts of a section restore, with sleeps 1 and 4
C5_Witness ==
    /\ Returned
    /\ rt.fn = "restore"
    /\ rt.err # Nil
    /\ Sleeps(rt) = <<1, 4>>

\* C6: a successful invocation of fn ends the run at once with nil; the
\* retrier returns an error only when fn was invoked maxAttempts times and
\* failed each time, and the error names the operation and maxAttempts
\* and wraps the error of the last invocation.
C6_ResultOfRetry ==
    /\ \A i \in 1..Len(rt.ev) :
        (rt.ev[i].e = "call" /\ rt.ev[i].ok) =>
            /\ i = Len(rt.ev)
            /\ Returned
            /\ rt.err = Nil
    /\ (Returned /\ rt.err = Nil) => (rt.ev # <<>> /\ Last(rt.ev).ok)
    /\ (Returned /\ rt.err # Nil /\ rt.maxAttempts >= 1) =>
            /\ FnCalls(rt) = rt.maxAttempts
            /\ \A i \in 1..Len(FnEvents) : ~FnEvents[i].ok /\ FnEvents[i].n = i
            /\ Head(rt.err).msg = "operation %s failed after %d attempts"
            /\ Head(rt.err).a = rt.operation
            /\ Head(rt.err).b = rt.maxAttempts
            /\ Tail(rt.err) = FnError(rt, rt.maxAttempts)

\* C6 witness: a section restore failed three times; the error wraps the third
C6_Witness ==
    /\ Returned
    /\ rt.fn = "restore"
    /\ rt.maxAttempts = 3
    /\ rt.err # Nil
    /\ Tail(rt.err) = FnError(rt, 3)
    /\ Tail(rt.err) # FnError(rt, 1)


(* ------------------------------------------------------------------ *)
(* Properties of modifyPreDataFile                                     *)
(* ------------------------------------------------------------------ *)

\* the i-th old option token remains in the text
OldTokenIn(text, i) ==
    Contains(text, Token(OptionKeys[i], OptionValue(cfg.srcMoodys, i)))

\* the i-th option has different old and new values
OptionChanges(i) ==
    OptionValue(cfg.srcMoodys, i) # OptionValue(cfg.destMoodys, i)

\* no descriptor value holds a quote or a space
PlainValues ==
    \A m \in {cfg.srcMoodys, cfg.destMoodys} : \A i \in 1..5 :
        \A j \in 1..Len(OptionValue(m, i)) : OptionValue(m, i)[j] \notin {"'", " "}

\* entry i is a rewrite of the result of a successful rewrite
SecondAt(i) ==
    /\ i > 1
    /\ rewriteLog[i - 1].ok
    /\ rewriteLog[i].ok
    /\ rewriteLog[i].before = rewriteLog[i - 1].after

\* C7 (as stated): for any content and any descriptor pair, after one
\* rewrite the artifact holds none of the five old option tokens, and a
\* second rewrite with the same arguments leaves it byte-identical.
C7_Original ==
    \A i \in 1..Len(rewriteLog) :
        /\ rewriteLog[i].ok => \A o \in 1..5 : ~OldTokenIn(rewriteLog[i].after, o)
        /\ SecondAt(i) => rewriteLog[i].after = rewriteLog[i].before

\* C7 (amended): when no descriptor value holds a quote or a space, after
\* one rewrite the artifact holds no old option token whose new value
\* differs from the old one (a token whose value is unchanged stays), and a
\* second rewrite with the same arguments leaves the file byte-identical.
C7_RewriteIdempotent ==
    PlainValues =>
        \A i \in 1..Len(rewriteLog) :
            /\ rewriteLog[i].ok =>
                /\ i = Len(rewriteLog) => files[rewriteLog[i].file] = rewriteLog[i].after
                /\ \A o \in 1..5 :
                    OptionChanges(o) => ~OldTokenIn(rewriteLog[i].after, o)
            /\ SecondAt(i) =>
                /\ rewriteLog[i].after = rewriteLog[i].before
                /\ i = Len(rewriteLog) => files[rewriteLog[i].file] = rewriteLog[i - 1].after

\* C7 witness: a first rewrite replaced old tokens, a second one ran on its
\* result and left the file as it was
C7_Witness ==
    /\ PlainValues
    /\ Len(rewriteLog) = 2
    /\ SecondAt(2)
    /\ \E o \in 1..5 : OptionChanges(o) /\ OldTokenIn(rewriteLog[1].before, o)
    /\ rewriteLog[1].after # rewriteLog[1].before
    /\ files[rewriteLog[2].file] = rewriteLog[1].after


(* ------------------------------------------------------------------ *)
(* Properties of the dumper and of the artifact paths                  *)
(* ------------------------------------------------------------------ *)

InDump == result.call = "DumpWorkflow"

\* the dump invocations of the running call, in order
Dumps == SelectSeq(trace, LAMBDA e : e.op = "dump")

\* C8: every dump invocation, for either database, writes pre-data in plain
\* format to a file with extension .sql and data and post-data in custom
\* format to a file with extension .dump; two invocations for the same
\* section agree on format and extension whatever the database; a dump that
\* succeeded left its file.
C8_ExtensionBySection ==
    InDump =>
        \A i \in 1..Len(Dumps) :
            /\ Dumps[i].section \in {PreData, DataSec, PostData}
            /\ Dumps[i].section = PreData =>
                (Ext(Dumps[i].file) = ExtSql /\ Dumps[i].how = "p")
            /\ Dumps[i].section \in {DataSec, PostData} =>
                (Ext(Dumps[i].file) = ExtDump /\ Dumps[i].how = "c")
            /\ Dumps[i].ok => Dumps[i].file \in DOMAIN files
            /\ \A j \in 1..Len(Dumps) :
                Dumps[j].section = Dumps[i].section =>
                    /\ Ext(Dumps[j].file) = Ext(Dumps[i].file)
                    /\ Dumps[j].how = Dumps[i].how

\* C8 witness: both databases dumped; the reference pre-data went to a .sql
\* file and the tenant post-data to a .dump file
C8_Witness ==
    /\ InDump
    /\ \E i, j \in 1..Len(Dumps) :
        /\ Dumps[i].db = cfg.srcMoodys.DBName
        /\ Dumps[i].section = PreData
        /\ Dumps[i].ok
        /\ Ext(Dumps[i].file) = ExtSql
        /\ Dumps[j].db = cfg.srcTenant.DBName
        /\ Dumps[j].section = PostData
        /\ Dumps[j].ok
        /\ Ext(Dumps[j].file) = ExtDump

\* the file prefix DumpWorkflow uses for the role a destination database plays
RolePrefix(name) == IF name = RefName THEN MoodysPrefix ELSE TenantPrefix

\* the path DumpWorkflow writes for a role and a section under dir
DumpedPath(dir, prefix, section) == DumpOutputFile(DumpStem(dir, prefix, section), section)

\* C9: every path RestoreWorkflow hands to the section restorer is the path
\* DumpWorkflow writes for that role and section under the same directory
\* (prefix_section.sql for pre-data, prefix_section.dump otherwise); a
\* restore that succeeded read a file that is there; the path handed to
\* the rewriter is the path handed to the tenant pre-data restore.
C9_RestorePathsMatchDump ==
    InRestore =>
        \A i \in 1..Len(trace) :
            /\ trace[i].op \in {"restore_begin", "restore_end"} =>
                /\ trace[i].db \in {RefName, TenantName}
                /\ trace[i].file =
                        DumpedPath(cfg.dir, RolePrefix(trace[i].db), trace[i].section)
                /\ trace[i].file =
                        Join(cfg.dir, RolePrefix(trace[i].db) \o <<"_">> \o trace[i].section
                                \o (IF trace[i].section = PreData
                                    THEN <<".", "s", "q", "l">>
                                    ELSE <<".", "d", "u", "m", "p">>))
            /\ (trace[i].op = "restore_end" /\ trace[i].ok) =>
                trace[i].file \in DOMAIN files
            /\ trace[i].op = "rewrite" =>
                /\ trace[i].file = DumpedPath(cfg.dir, TenantPrefix, PreData)
                /\ \A j \in 1..Len(trace) :
                    (/\ trace[j].op = "restore_begin"
                     /\ trace[j].db = TenantName
                     /\ trace[j].section = PreData) => trace[j].file = trace[i].file

\* C9 witness: a restore run read all six artifacts, the tenant's included
C9_Witness ==
    /\ InRestore
    /\ result.done
    /\ result.err = Nil
    /\ \E i \in 1..Len(trace) :
        /\ trace[i].op = "restore_end"
        /\ trace[i].db = TenantName
        /\ trace[i].section = PostData
        /\ trace[i].ok
        /\ trace[i].file = DumpedPath(cfg.dir, TenantPrefix, PostData)

\* the six (database, section) pairs in the order of the dump
SixDumps ==
    <<[db |-> cfg.srcMoodys.DBName, section |-> PreData],
      [db |-> cfg.srcMoodys.DBName, section |-> DataSec],
      [db |-> cfg.srcMoodys.DBName, section |-> PostData],
      [db |-> cfg.srcTenant.DBName, section |-> PreData],
      [db |-> cfg.srcTenant.DBName, section |-> DataSec],
      [db |-> cfg.srcTenant.DBName, section |-> PostData]>>

\* C10: the dump invocations of a DumpWorkflow run are, at every moment, the
\* first ones of the six pairs reference pre-data, data, post-data, tenant
\* pre-data, data, post-data, each for one section and each begun after the
\* one before it succeeded; a successful run has made exactly the six.
C10_SixDumpsInOrder ==
    InDump =>
        /\ Len(Dumps) <= Len(SixDumps)
        /\ \A i \in 1..Len(Dumps) :
            /\ Dumps[i].db = SixDumps[i].db
            /\ Dumps[i].section = SixDumps[i].section
            /\ i < Len(Dumps) => Dumps[i].ok
        /\ (result.done /\ result.err = Nil) =>
            /\ Len(Dumps) = 6
            /\ \A i \in 1..Len(Dumps) : Dumps[i].ok
        /\ (result.done /\ Len(Dumps) > 0 /\ Last(Dumps).ok) =>
            (Len(Dumps) = 6 /\ result.err = Nil)

\* C10 witness: a DumpWorkflow run returned success after its sixth dump
C10_Witness ==
    /\ InDump
    /\ result.done
    /\ result.err = Nil
    /\ Len(Dumps) = 6
    /\ Last(Dumps).db = cfg.srcTenant.DBName
    /\ Last(Dumps).section = PostData


(* ------------------------------------------------------------------ *)
(* Properties of failures in DumpWorkflow                              *)
(* ------------------------------------------------------------------ *)

\* the file prefix DumpWorkflow uses for a source database
SourcePrefix(name) == IF name = cfg.srcMoodys.DBName THEN MoodysPrefix ELSE TenantPrefix

\* C11: a failed dump is the last step of its DumpWorkflow run: no dump of a
\* later pair follows it, the run has returned an error whose outer layer
\* names the failing database and section, no (database, section) pair is
\* dumped twice, and every artifact written by an earlier dump of the run is
\* still there with the content that dump wrote.
C11_DumpAbortsOnFirstFailure ==
    InDump =>
        /\ \A i \in 1..Len(Dumps) :
            /\ ~Dumps[i].ok =>
                /\ i = Len(Dumps)
                /\ Last(trace) = Dumps[i]
                /\ result.done
                /\ result.err # Nil
                /\ Head(result.err).msg = "failed to dump %s %s"
                /\ Head(result.err).a = SourcePrefix(Dumps[i].db)
                /\ Head(result.err).b = Dumps[i].section
            /\ \A j \in 1..Len(Dumps) :
                (Dumps[j].db = Dumps[i].db /\ Dumps[j].section = Dumps[i].section)
                    => j = i
            /\ Dumps[i].ok =>
                /\ Dumps[i].file \in DOMAIN files
                /\ files[Dumps[i].file] = SectionContent(dbdata[Dumps[i].db], Dumps[i].section)
        /\ (result.done /\ result.err # Nil /\ Dumps # <<>>) => ~Last(Dumps).ok

\* C11 witness: the tenant data dump failed after four dumps had succeeded,
\* whose artifacts are in place
C11_Witness ==
    /\ InDump
    /\ result.done
    /\ result.err # Nil
    /\ Len(Dumps) = 5
    /\ ~Dumps[5].ok
    /\ Head(result.err).a = TenantPrefix
    /\ Head(result.err).b = DataSec
    /\ \A i \in 1..4 : Dumps[i].ok /\ Dumps[i].file \in DOMAIN files


(* ------------------------------------------------------------------ *)
(* Properties of restoreDatabaseSection                                *)
(* ------------------------------------------------------------------ *)

\* the retrier frame belongs to a section restore
RestoreFrame == rt.fn = "restore"

\* the section restore whose frame is rs has returned to RestoreWorkflow
RestoreEnded ==
    /\ RestoreFrame
    /\ trace # <<>>
    /\ Last(trace).op = "restore_end"
    /\ Last(trace).db = rs.config.DBName
    /\ Last(trace).section = rs.section

\* C12: a call of the section restorer invokes the restore client at most 3
\* times, and at least once before it returns; it reports failure only when
\* 3 invocations were made and all failed; it reports success exactly when
\* its last invocation succeeded, and a successful invocation is never
\* followed by another one for that section.
C12_RestoreAttempts ==
    RestoreFrame =>
        /\ FnCalls(rt) <= 3
        /\ \A i \in 1..Len(FnEvents) :
            /\ FnEvents[i].n = i
            /\ FnEvents[i].ok => i = Len(FnEvents)
        /\ Returned =>
            /\ FnCalls(rt) >= 1
            /\ rt.err # Nil <=> (FnCalls(rt) = 3 /\ \A i \in 1..3 : ~FnEvents[i].ok)
            /\ rt.err = Nil <=> Last(FnEvents).ok
        /\ RestoreEnded =>
            /\ Returned
            /\ Last(trace).ok <=> rt.err = Nil
            /\ ~Last(trace).ok => (result.done /\ result.err # Nil)

\* C12 witness: a section was reported restored after the client had failed
\* twice and succeeded at its third invocation
C12_Witness ==
    /\ RestoreEnded
    /\ Last(trace).ok
    /\ FnCalls(rt) = 3
    /\ ~FnEvents[1].ok
    /\ ~FnEvents[2].ok
    /\ FnEvents[3].ok


(* ------------------------------------------------------------------ *)
(* Properties of the round trip and of ValidateDatabaseContent         *)
(* ------------------------------------------------------------------ *)

InValidate == result.call = "ValidateDatabaseContent"

\* the count queries of the running call, in order
Counts == SelectSeq(trace, LAMBDA e : e.op = "count")

\* both count queries of ValidateDatabaseContent produced a result
BothCounted == InValidate /\ Len(Counts) = 2 /\ Counts[1].ok /\ Counts[2].ok

\* the destination tenant holds what a successful RestoreWorkflow leaves
TenantRestored ==
    /\ TenantName \in exists
    /\ AppliedSections(TenantName) = Sections

QuotedUserToken(value) == <<"\"">> \o KeyUser \o <<"\"", " ", "'">> \o value \o <<"'">>

\* entry i of the log is a successful rewrite of an artifact in the form
\* pg_dump emits for the old reference descriptor
DumpedFormAt(i) ==
    /\ rewriteLog[i].ok
    /\ rewriteLog[i].before = ForeignLinkText(cfg.srcMoodys)

\* the four options with a bare key carry the new values after rewrite i
BareOptionsRewritten(i) ==
    \A o \in {1, 2, 3, 5} :
        Contains(rewriteLog[i].after, Token(OptionKeys[o], OptionValue(cfg.destMoodys, o)))

\* the user option carries the new value after rewrite i
UserOptionRewritten(i) ==
    Contains(rewriteLog[i].after, QuotedUserToken(cfg.destMoodys.User))

\* C14 (as stated): after the rewrite of an artifact in the form the dump
\* utility emits, each of dbname, host, port, password and the user option
\* (written "user" '<value>') carries the new reference descriptor's value:
\* the artifact is the one the dump utility would emit for the new descriptor.
C14_AllOptionsRewritten ==
    \A i \in 1..Len(rewriteLog) :
        DumpedFormAt(i) =>
            /\ BareOptionsRewritten(i)
            /\ UserOptionRewritten(i)
            /\ rewriteLog[i].after = ForeignLinkText(cfg.destMoodys)

\* C14, the failing case: a dumped artifact was rewritten for a new
\* descriptor with another user, and the user option still carries the old one
C14_Witness ==
    \E i \in 1..Len(rewriteLog) :
        /\ DumpedFormAt(i)
        /\ cfg.srcMoodys.User # cfg.destMoodys.User
        /\ BareOptionsRewritten(i)
        /\ Contains(rewriteLog[i].after, QuotedUserToken(cfg.srcMoodys.User))
        /\ ~UserOptionRewritten(i)


(* ------------------------------------------------------------------ *)
(* Properties of DeleteDatabases                                       *)
(* ------------------------------------------------------------------ *)

InDelete == result.call = "DeleteDatabases"

\* the drops of the running call, in order
Drops == SelectSeq(trace, LAMBDA e : e.op = "drop")

\* C15: a drop of a database that is not there succeeds whenever the server
\* is reached, and leaves the set of databases as it was; a database that
\* is not there holds nothing; a successful drop leaves its database
\* absent; so a DeleteDatabases that returned nil, the first or a repeated
\* one, leaves none of its databases, and made one successful drop for each.
C15_DropMissingIsNoOp ==
    /\ \A n \in DBNames(cfg) : n \notin exists => dbdata[n] = <<>>
    /\ InDelete =>
        /\ \A i \in 1..Len(Drops) :
            /\ (Drops[i].db \notin Drops[i].before /\ Drops[i].outcome # "connection")
                    => Drops[i].ok
            /\ Drops[i].db \notin Drops[i].before => Drops[i].after = Drops[i].before
            /\ Drops[i].ok => Drops[i].after = Drops[i].before \ {Drops[i].db}
            /\ ~Drops[i].ok => Drops[i].after = Drops[i].before
        /\ (result.done /\ result.err = Nil) =>
            /\ Len(Drops) = Len(DeleteConfigs(cfg))
            /\ \A i \in 1..Len(Drops) :
                /\ Drops[i].ok
                /\ Drops[i].db = DeleteConfigs(cfg)[i].DBName
                /\ Drops[i].db \notin exists

\* C15 witness: a DeleteDatabases found none of its four databases and
\* returned nil, leaving the same (empty) set
C15_Witness ==
    /\ InDelete
    /\ result.done
    /\ result.err = Nil
    /\ Len(Drops) = 4
    /\ \A i \in 1..4 :
        /\ Drops[i].db \notin Drops[i].before
        /\ Drops[i].ok
        /\ Drops[i].after = Drops[i].before
    /\ exists = Drops[1].before


(* ------------------------------------------------------------------ *)
(* Properties of what the workflows leave behind                       *)
(* ------------------------------------------------------------------ *)

InWorkflow == InRestore \/ InDump

\* the creates of the running call, in order
Creates == SelectSeq(trace, LAMBDA e : e.op = "create")

\* a step of RestoreWorkflow or DumpWorkflow removes no database and no file
NoRemoval ==
    InWorkflow' =>
        /\ exists \subseteq exists'
        /\ DOMAIN files \subseteq DOMAIN files'

\* within a workflow run: no drop is issued, every database the run
\* created is there, every artifact the run dumped is there
NothingUndone ==
    InWorkflow =>
        /\ Drops = <<>>
        /\ \A i \in 1..Len(Creates) : Creates[i].ok => Creates[i].db \in exists
        /\ \A i \in 1..Len(Dumps) : Dumps[i].ok => Dumps[i].file \in DOMAIN files
        /\ (/\ result.done
            /\ result.err # Nil
            /\ Head(result.err).msg = "failed to create tenant database"
            /\ Creates[1].ok) => RefName \in exists

\* C16: no step of a RestoreWorkflow or DumpWorkflow run, failed or not,
\* drops a database or deletes a file; no drop appears in the run; what the
\* run created or dumped is still there at every later moment of the run;
\* when creating the tenant destination fails after the reference
\* destination was created, the reference destination exists at return.
C16_NoCleanupOnFailure == []NothingUndone /\ [][NoRemoval]_vars

\* C16 witness: RestoreWorkflow created the reference destination, failed
\* to create the tenant destination and returned with the reference
\* destination in place
C16_Witness ==
    /\ InRestore
    /\ result.done
    /\ result.err # Nil
    /\ Head(result.err).msg = "failed to create tenant database"
    /\ Len(Creates) = 2
    /\ Creates[1].ok
    /\ Creates[1].db = RefName
    /\ ~Creates[2].ok
    /\ RefName \in exists
    /\ TenantName \notin exists


(* ------------------------------------------------------------------ *)
(* Properties of the row-count probe                                   *)
(* ------------------------------------------------------------------ *)

\* positions of the row-count probes in the running call's trace
Probes == {i \in 1..Len(trace) : trace[i].op = "probe"}

\* the section restore that issued the probe at position i succeeded
ProbedRestoreSucceeded(i) ==
    IF i = Len(trace)
    THEN Returned /\ rt.err = Nil
    ELSE trace[i + 1].op = "restore_end" /\ trace[i + 1].ok

\* the probe at position i belongs to a restore of the data section
ProbeOfDataSection(i) ==
    /\ trace[i].section = DataSec
    /\ i > 1
    /\ trace[i - 1].op = "restore_begin"
    /\ trace[i - 1].section = DataSec
    /\ trace[i - 1].db = trace[i].db

\* C17 (as stated): the row-count probe is issued only for the data
\* section, never for pre-data or post-data, and only when the restore of
\* that section succeeded, never when it failed all of its attempts.
C17_ProbeOnlyAfterSuccess ==
    InRestore =>
        \A i \in Probes :
            /\ ProbeOfDataSection(i)
            /\ ProbedRestoreSucceeded(i)

\* C17, the failing case: the data restore failed its three attempts and
\* the probe was issued all the same
C17_Witness ==
    /\ InRestore
    /\ trace # <<>>
    /\ Len(trace) \in Probes
    /\ ProbeOfDataSection(Len(trace))
    /\ Returned
    /\ rt.err # Nil
    /\ FnCalls(rt) = 3
    /\ \A i \in 1..3 : ~FnEvents[i].ok


\* C18: the section restorer returns what the retried restore returned,
\* whether the probe succeeded, failed or was not issued: the section is
\* reported restored exactly when the retrier returned nil, an error the
\* workflow returns for the section wraps the retrier's error, and a
\* section restored with a failed probe lets the workflow go on; a section
\* restore issues at most one probe, directly after its retrier returned.
C18_ProbeHasNoEffect ==
    InRestore =>
        /\ RestoreEnded =>
            /\ rs.probe \in {"none", "ok", "failed"}
            /\ Last(trace).ok <=> rt.err = Nil
            /\ rt.err # Nil => (result.done /\ Tail(result.err) = rt.err)
            /\ rt.err = Nil => result.err = Nil
        /\ \A i \in Probes :
            /\ i > 1
            /\ trace[i - 1].op = "restore_begin"
            /\ i < Len(trace) => trace[i + 1].op = "restore_end"
        /\ (pc \in {"retry_loop", "retry_sleep", "rs_after"} /\ RestoreFrame)
                => rs.probe = "none"

\* C18 witness: the reference data section was restored, its probe failed,
\* and the workflow went on to the next section
C18_Witness ==
    /\ InRestore
    /\ RestoreEnded
    /\ rs.section = DataSec
    /\ rs.probe = "failed"
    /\ Last(trace).ok
    /\ ~result.done
    /\ pc = "rw_moodys"


(* ------------------------------------------------------------------ *)
(* Properties of what is retried                                       *)
(* ------------------------------------------------------------------ *)

\* the steps that are external invocations or the rewrite, made directly
DirectOps == {"create", "dump", "drop", "rewrite"}

InCoreCall == InRestore \/ InDump \/ InDelete

\* C19: within one run of RestoreWorkflow, DumpWorkflow or DeleteDatabases
\* every create, dump, drop and rewrite appears once for its database and
\* section; when one fails it is the last step of the run and the run has
\* returned an error; a retrier runs in such a run only for a section restore.
C19_OnlyRestoresRetried ==
    InCoreCall =>
        /\ \A i \in 1..Len(trace) :
            trace[i].op \in DirectOps =>
                /\ \A j \in 1..Len(trace) :
                    (/\ trace[j].op = trace[i].op
                     /\ trace[j].db = trace[i].db
                     /\ trace[j].section = trace[i].section) => j = i
                /\ ~trace[i].ok =>
                    /\ i = Len(trace)
                    /\ result.done
                    /\ result.err # Nil
        /\ rt.state # "none" => RestoreFrame
        /\ (result.done /\ result.err = Nil) =>
            \A i \in 1..Len(trace) : trace[i].op \in DirectOps => trace[i].ok

\* C19 witness: in one RestoreWorkflow run the last reference restore took
\* three invocations of the client, and the rewrite, tried once, failed and
\* ended the run
C19_Witness ==
    /\ InRestore
    /\ result.done
    /\ result.err # Nil
    /\ Last(trace).op = "rewrite"
    /\ ~Last(trace).ok
    /\ Cardinality({i \in 1..Len(trace) : trace[i].op = "rewrite"}) = 1
    /\ RestoreFrame
    /\ FnCalls(rt) = 3

\* the external invocations a workflow makes as steps of its own
DirectInvocations == {"create", "dump", "drop"}

\* C20 (as stated): every create, drop, dump and section restore is
\* executed through the retrier: when such an invocation has just been
\* started, a retrier frame is running it.
C20_Original ==
    (InCoreCall /\ trace # <<>>
        /\ Last(trace).op \in DirectInvocations \cup {"restore_begin"})
            => rt.state # "none"

\* C20 (amended): only the section restore is executed through the
\* retrier: a create, drop or dump is made with no retrier frame at all,
\* while a section restore that has begun runs in a retrier frame with
\* 3 attempts whose operation is "restore <path>" and whose invocations are
\* all the invocations of the restore client.
C20_OnlyRestoreThroughRetrier ==
    (InCoreCall /\ trace # <<>>) =>
        /\ Last(trace).op \in DirectInvocations =>
            /\ rt.state = "none"
            /\ rt.ev = <<>>
        /\ Last(trace).op = "restore_begin" =>
            /\ rt.state \in {"running", "returned"}
            /\ RestoreFrame
            /\ rt.maxAttempts = 3
            /\ rt.operation = <<"r", "e", "s", "t", "o", "r", "e", " ">> \o Last(trace).file
            /\ \A i \in 1..Len(rt.ev) : rt.ev[i].e \in {"call", "sleep"}
        /\ (Last(trace).op = "restore_end" /\ Last(trace).ok) =>
            (RestoreFrame /\ FnCalls(rt) >= 1)

\* C20 witness: a create was made outside any retrier frame, and later in
\* the same run a section restore ran twice inside one
C20_Witness ==
    /\ InRestore
    /\ Len(trace) >= 3
    /\ trace[1].op = "create"
    /\ Last(trace).op = "restore_begin"
    /\ rt.state = "running"
    /\ FnCalls(rt) = 2


(* ------------------------------------------------------------------ *)
(* Properties of the retrier's log                                     *)
(* ------------------------------------------------------------------ *)

\* the failed invocations of fn in this retrier run
FailedCalls == {i \in 1..Len(FnEvents) : ~FnEvents[i].ok}

\* C21 as stated: when the retrier has returned, it has logged one line for
\* every failed attempt, the final failed attempt included.
C21_Original ==
    Returned => Len(rt.log) = Cardinality(FailedCalls)

\* C21: the retrier logs one line for every failed attempt that is followed
\* by another attempt, and none for the final failed attempt: the i-th line
\* reports attempt i of maxAttempts, the operation, the error of the i-th
\* invocation and the backoff i*i of the sleep that follows it; a run whose
\* attempts all failed has logged maxAttempts - 1 lines.
C21_LogLines ==
    /\ Len(rt.log) = Len(Sleeps(rt))
    /\ \A i \in 1..Len(rt.log) :
        /\ i < rt.maxAttempts
        /\ i \in FailedCalls
        /\ rt.log[i] = LogLine(i, rt.maxAttempts, rt.operation, FnError(rt, i), i * i)
        /\ rt.log[i].backoff = Sleeps(rt)[i]
    /\ \A i \in FailedCalls :
        i < rt.maxAttempts =>
            \/ i <= Len(rt.log)
            \/ i = Len(rt.log) + 1 /\ pc = "retry_sleep"
    /\ (Returned /\ rt.err # Nil /\ rt.maxAttempts >= 1) =>
            /\ Cardinality(FailedCalls) = rt.maxAttempts
            /\ Len(rt.log) = rt.maxAttempts - 1

\* C21 witness: a section restore failed three times and two lines were logged
C21_Witness ==
    /\ Returned
    /\ rt.fn = "restore"
    /\ rt.err # Nil
    /\ Cardinality(FailedCalls) = 3
    /\ Len(rt.log) = 2
    /\ rt.log[2].backoff = 4


(* ------------------------------------------------------------------ *)
(* Properties of a retried section restore                             *)
(* ------------------------------------------------------------------ *)

\* C22: when a section restore has succeeded, at whichever attempt, the
\* destination database holds for that section exactly what one application
\* of the artifact brings, which is what a restore that succeeds at its
\* first attempt leaves.
C22_RetryIdempotent ==
    (RestoreFrame /\ Returned /\ rt.err = Nil) =>
        SectionContent(dbdata[rs.config.DBName], rs.section) = files[rs.inputFile]

\* C22 witness: the tenant's row data was restored at the second attempt
\* after the first attempt had failed part-way, and the table holds the
\* rows of the failed attempt besides those of the artifact
C22_Witness ==
    /\ RestoreFrame
    /\ Returned
    /\ rt.err = Nil
    /\ rs.section = DataSec
    /\ rs.config.DBName = TenantName
    /\ FnCalls(rt) = 2
    /\ Len(files[rs.inputFile]) = NumTestRecords
    /\ CountRows(TenantName) = NumTestRecords + MaxPartial


(* ------------------------------------------------------------------ *)
(* Properties of the order of steps: one thread of control             *)
(* ------------------------------------------------------------------ *)

\* the external processes launched so far in the running call: the steps
\* of the trace that run one, and the retrier's invocations of the client
Launches ==
    Cardinality({i \in 1..Len(trace) :
                    trace[i].op \in {"dump", "create", "probe", "drop", "count"}})
    + FnCalls(rt)

\* the workflow is where it has taken the steps of the trace and no other
Sequential ==
    /\ (InWorkflow /\ ~result.done) => pc # "idle"
    /\ (InWorkflow /\ result.done) => pc = "idle"
    /\ InWorkflow =>
        \A i \in 1..Len(trace) :
            /\ trace[i].ok \in BOOLEAN
            /\ (trace[i].op = "restore_begin" /\ i < Len(trace)) =>
                /\ trace[i + 1].op \in {"probe", "restore_end"}
                /\ trace[i + 1].db = trace[i].db
                /\ trace[i + 1].section = trace[i].section
            /\ (trace[i].op = "probe" /\ i < Len(trace)) =>
                /\ trace[i + 1].op = "restore_end"
                /\ trace[i + 1].db = trace[i].db
    /\ (InWorkflow /\ rt.state = "running") =>
        /\ RestoreFrame
        /\ Last(trace).op = "restore_begin"
        /\ Last(trace).db = rs.config.DBName
        /\ Last(trace).file = rs.inputFile
    /\ pc = "retry_sleep" =>
        /\ rt.ev # <<>>
        /\ Last(rt.ev).e = "call"
        /\ ~Last(rt.ev).ok
    /\ \A i \in 1..(Len(rt.ev) - 1) :
        /\ rt.ev[i].e = "call" => rt.ev[i + 1].e = "sleep"
        /\ rt.ev[i].e = "sleep" => rt.ev[i + 1].e = "call"

\* a step taken while a workflow runs belongs to that workflow, launches at
\* most one external process, and a sleeping step launches none and touches
\* no database and no file
OneStep ==
    (InWorkflow /\ ~result.done) =>
        /\ calls' = calls
        /\ result'.call = result.call
        /\ Launches' <= Launches + 1
        /\ pc = "retry_sleep" =>
            /\ Launches' = Launches
            /\ trace' = trace
            /\ exists' = exists /\ dbdata' = dbdata /\ files' = files
            /\ Len(Sleeps(rt')) = Len(Sleeps(rt)) + 1

\* C23: while DumpWorkflow or RestoreWorkflow runs, every step is a step of
\* that run and launches at most one external process, which has ended,
\* with its outcome known, when the step ends; a section restore that has
\* begun is followed in the trace only by its own probe and its own end, and
\* while its retrier runs the workflow has taken no further step, so no two
\* steps use a database or an artifact at once; a backoff sleep begins only
\* after the failed invocation before it has ended, nothing else happens
\* during it, and the next invocation is made only after it.
C23_OneAtATime == []Sequential /\ [][OneStep]_vars

\* C23 witness: RestoreWorkflow is in the backoff sleep after a failed run
\* of the restore client on the tenant's row data; the creates, the reference
\* restores and the rewrite are behind it
C23_Witness ==
    /\ InRestore
    /\ ~result.done
    /\ pc = "retry_sleep"
    /\ rs.config.DBName = TenantName
    /\ rs.section = DataSec
    /\ Len(trace) > 10
    /\ Launches > 2


(* ------------------------------------------------------------------ *)
(* Properties of the restore command                                   *)
(* ------------------------------------------------------------------ *)

\* C24: on every host, the command of a data or post-data restore is the
\* restore utility with a worker count equal to the number of processing
\* units of the host, and the command of a pre-data restore is the SQL
\* client with no worker count.
C24_WorkersEqualCPUs ==
    RestoreFrame =>
        IF rs.section = PreData
        THEN rs.cmd.prog = "psql" /\ rs.cmd.jobs = 0
        ELSE rs.cmd.prog = "pg_restore" /\ rs.cmd.jobs = cfg.cpus

\* C24 witness: on a host with two processing units the tenant's row data
\* is restored by the restore utility with one worker
C24_Witness ==
    /\ RestoreFrame
    /\ cfg.cpus = 2
    /\ rs.section = DataSec
    /\ rs.config.DBName = TenantName
    /\ rs.cmd.prog = "pg_restore"
    /\ rs.cmd.jobs = 1
    /\ FnCalls(rt) >= 1


(* ------------------------------------------------------------------ *)
(* Properties of RestoreWorkflow on an existing destination            *)
(* ------------------------------------------------------------------ *)

\* the first create step of a RestoreWorkflow run that finds the reference
\* destination database in place fails and ends the run there
FirstCreateOnExisting ==
    (InRestore /\ pc = "rw_create_moodys" /\ RefName \in exists) =>
        /\ pc' = "idle"
        /\ result'.done
        /\ result'.err # Nil
        /\ Head(result'.err).msg = "failed to create moodys database"
        /\ Len(trace') = 1
        /\ trace'[1].op = "create" /\ trace'[1].db = RefName /\ ~trace'[1].ok
        /\ exists' = exists
        /\ dbdata' = dbdata
        /\ files' = files
        /\ rewriteLog' = rewriteLog

\* a run whose first create failed has taken no other step
NothingAfterFailedCreate ==
    (InRestore /\ trace # <<>> /\ ~trace[1].ok) =>
        /\ Len(trace) = 1
        /\ trace[1].op = "create"
        /\ trace[1].db = RefName
        /\ result.done
        /\ result.err # Nil
        /\ pc = "idle"

\* C25: a RestoreWorkflow run started while the reference destination
\* database exists fails at its first create step and returns: it issues no
\* create for the tenant destination, restores no section, rewrites no
\* artifact, and leaves databases and files as they were.
C25_FailsOnExistingDestination ==
    []NothingAfterFailedCreate /\ [][FirstCreateOnExisting]_vars

\* C25 witness: a second RestoreWorkflow run found the reference
\* destination of the first run, restored in full, and returned after its
\* first create
C25_Witness ==
    /\ InRestore
    /\ result.done
    /\ Len(trace) = 1
    /\ trace[1].db = RefName
    /\ ~trace[1].ok
    /\ RefName \in exists
    /\ AppliedSections(RefName) = Sections


(* ------------------------------------------------------------------ *)
(* Properties of the failure values of the external processes          *)
(* ------------------------------------------------------------------ *)

\* some layer of the error chain carries the output
Carries(err, output) ==
    \E i \in 1..Len(err) : "out" \in DOMAIN err[i] /\ err[i].out = output

\* DumpWorkflow has returned the failure of its last dump
DumpFailed ==
    /\ InDump
    /\ result.done
    /\ result.err # Nil
    /\ Dumps # <<>>
    /\ ~Last(Dumps).ok

\* C26: the failure DumpWorkflow returns for a failed section dump carries
\* the combined output captured from the dump process.
C26_DumpFailureCarriesOutput ==
    DumpFailed => Carries(result.err, Last(Dumps).logged)

\* C26 witness: a section dump failed, its output was logged, and the
\* failure returned is the step's layer around the dump's layer around the
\* exit error, none of them with the output
C26_Witness ==
    /\ DumpFailed
    /\ Last(Dumps).logged = CombinedOutput(Len(trace) - 1)
    /\ Len(result.err) = 3
    /\ result.err[2].msg = "failed to dump database section"
    /\ \A i \in 1..3 : "out" \notin DOMAIN result.err[i]


(* ------------------------------------------------------------------ *)
(* Properties of the rewriter's effects                                *)
(* ------------------------------------------------------------------ *)

\* this step is a call of modifyPreDataFile, by RestoreWorkflow or directly
RewriteStep ==
    \/ pc = "rw_modify"
    \/ calls' = calls + 1 /\ result'.call = "modifyPreDataFile"

\* what a call of modifyPreDataFile leaves alone
RewriteFrame ==
    RewriteStep =>
        LET file == Last(trace').file
        IN  /\ Last(trace').op = "rewrite"
            /\ file = TenantPreDataFile(cfg.dir)
            /\ DOMAIN files' = DOMAIN files
            /\ \A p \in DOMAIN files : p # file => files'[p] = files[p]
            /\ exists' = exists
            /\ dbdata' = dbdata
            /\ dirExists' = dirExists
            /\ file \notin DOMAIN files =>
                /\ files' = files
                /\ rewriteLog' = rewriteLog
                /\ ~Last(trace').ok
                /\ result'.done
                /\ result'.err # Nil

\* RestoreWorkflow after a failed rewrite
StopsAfterFailedRewrite ==
    InRestore =>
        \A i \in 1..Len(trace) :
            (trace[i].op = "rewrite" /\ ~trace[i].ok) =>
                /\ i = Len(trace)
                /\ result.done
                /\ Head(result.err).msg = "failed to modify tenant pre-data file"
                /\ TenantBegins = {}
                /\ RefName \in exists
                /\ AppliedSections(RefName) = Sections
                /\ AppliedSections(TenantName) = <<>>

\* C27: a call of the rewriter changes no file but the artifact it is given
\* and creates none, and changes no database; when the artifact cannot be
\* read it changes no file at all and returns a failure; RestoreWorkflow
\* then returns that failure at once, having begun no tenant section
\* restore, with the reference destination database as its three restores
\* left it.
C27_RewriterFrame == []StopsAfterFailedRewrite /\ [][RewriteFrame]_vars

\* C27 witness: RestoreWorkflow restored the reference database, found no
\* tenant schema artifact to read and returned
C27_Witness ==
    /\ InRestore
    /\ result.done
    /\ Last(trace).op = "rewrite"
    /\ ~Last(trace).ok
    /\ Last(trace).file \notin DOMAIN files
    /\ result.err[2].msg = "failed to read pre-data file"
    /\ AppliedSections(RefName) = Sections
    /\ files # <<>>


(* ------------------------------------------------------------------ *)
(* Properties of the length of a RestoreWorkflow run                   *)
(* ------------------------------------------------------------------ *)

\* the section restores of the running call that have returned
RestoreEnds == SelectSeq(trace, LAMBDA e : e.op = "restore_end")

RestoreBegins == {i \in 1..Len(trace) : trace[i].op = "restore_begin"}

\* the counts of a RestoreWorkflow run stay within their limits: the
\* invocations of one section restore are those of its retrier's frame,
\* which every section restore that has begun has had
RunBounds ==
    InRestore =>
        /\ Len(Creates) <= 2
        /\ Cardinality(RestoreBegins) <= 6
        /\ Cardinality(Probes) <= 2
        /\ RestoreBegins # {} =>
            /\ RestoreFrame
            /\ FnCalls(rt) <= 3
            /\ Sum(Sleeps(rt)) <= 5
        /\ RestoreBegins = {} => FnCalls(rt) = 0
        /\ Len(Creates) + 3 * Cardinality(RestoreBegins) <= 20

\* C28: every RestoreWorkflow run returns, with success or a failure, and
\* until then has made at most 2 create invocations, begun at most 6
\* section restores of at most 3 runs of the restore client each (20
\* invocations in all), made at most 2 row-count probes, and slept at most
\* 1 + 4 = 5 units in any one section restore.
C28_RunTerminates ==
    /\ []RunBounds
    /\ (InRestore /\ ~result.done) ~> (InRestore /\ result.done)

\* C28 witness: a run that went through its two creates and six section
\* restores and returned after the last one had failed three times and
\* slept 5 units
C28_Witness ==
    /\ InRestore
    /\ result.done
    /\ result.err # Nil
    /\ Len(Creates) = 2
    /\ Len(RestoreEnds) = 6
    /\ Cardinality(Probes) = 2
    /\ FnCalls(rt) = 3
    /\ Sum(Sleeps(rt)) = 5


(* ------------------------------------------------------------------ *)
(* Properties of the retrier with no attempt allowed                   *)
(* ------------------------------------------------------------------ *)

\* C29: a run of the retrier with maxAttempts <= 0 never invokes fn, never
\* logs and never sleeps, and returns a failure, not nil: the failure names
\* the operation and maxAttempts and wraps nothing.
C29_NoAttemptAllowed ==
    (rt.state # "none" /\ rt.maxAttempts <= 0) =>
        /\ rt.ev = <<>>
        /\ rt.log = <<>>
        /\ rt.lastErr = Nil
        /\ pc # "retry_sleep"
        /\ Returned =>
            /\ rt.err # Nil
            /\ Head(rt.err).msg = "operation %s failed after %d attempts"
            /\ Head(rt.err).a = rt.operation
            /\ Head(rt.err).b = rt.maxAttempts
            /\ Tail(rt.err) = Nil
            /\ result.done
            /\ result.err = rt.err

\* C29 witness: the retrier returned a failure for an operation that would
\* have succeeded at once, having been allowed no attempt
C29_Witness ==
    /\ Returned
    /\ rt.maxAttempts = 0
    /\ rt.k = 0
    /\ rt.ev = <<>>
    /\ rt.err # Nil
    /\ Tail(rt.err) = Nil

====
